---- MODULE Spec2Model ----
(***************************************************************************)
(* State-machine model of the notification orchestrator of the driver app  *)
(* (src/src/Notifications.tsx, class NotificationService): the listener    *)
(* registry with on/off/emit, the display path, the message handlers and   *)
(* initialization.                                                         *)
(***************************************************************************)
EXTENDS Integers, Sequences, FiniteSets, TLC

\* ------------------------------------------------------------------ bounds
\* Most listener instances kept registered at once (all events together).
MaxListeners == 3
\* Most listener instances the application keeps while messages are handled.
MaxAppListeners == 2
\* Most asynchronous operations of the service pending at once.
MaxInFlight == 1
\* Most registrations of one handler (by repeated initializeNotifications or
\* checkPendingNotifications calls).
MaxSetups == 1
\* Most calls of one setup method, and most handler runs overlapping, where
\* repeated setup and overlapping handlers are looked at.
MaxRepeat == 2
\* Most OTPs Firebase sends, where the login screen is looked at.
MaxSessions == 2

\* ------------------------------------------------------------- JS values
\* A JavaScript value found in a data mapping: a string, a number, a boolean
\* or a nested object.  One record shape, so that any two values compare.
Str(s)  == [k |-> "string",  s |-> s,  n |-> 0, b |-> FALSE]
Num(n)  == [k |-> "number",  s |-> "", n |-> n, b |-> FALSE]
Bool(b) == [k |-> "boolean", s |-> "", n |-> 0, b |-> b]
Obj     == [k |-> "object",  s |-> "", n |-> 0, b |-> FALSE]

Digit == <<"0", "1", "2", "3", "4", "5", "6", "7", "8", "9">>

\* Number.prototype.toString for a natural number: its decimal digits.
RECURSIVE NumberToString(_)
NumberToString(n) ==
    IF n < 10 THEN Digit[n + 1]
    ELSE NumberToString(n \div 10) \o Digit[(n % 10) + 1]

\* String(v) of JavaScript, the coercion showLocalNotification applies.
String(v) ==
    CASE v.k = "string"  -> v.s
      [] v.k = "number"  -> NumberToString(v.n)
      [] v.k = "boolean" -> (IF v.b THEN "true" ELSE "false")
      [] v.k = "object"  -> "[object Object]"

\* remoteMessage.data === undefined
NoData == [undefined |-> TRUE]

\* The empty mapping {}.
EmptyMap == [key \in {} |-> Str("")]

\* The data mappings the environment delivers.
DataSet ==
    { NoData,
      [type |-> Str("ride_request"), rideId |-> Num(42)],
      [type |-> Str("chat"), rideId |-> Bool(TRUE), extra |-> Obj] }

\* The payloads of the emit() calls made directly on the emitter.
EmitDataSet == {d \in DataSet : d = NoData \/ ("type" \in DOMAIN d /\ "rideId" \in DOMAIN d /\ d["rideId"].k = "number")}

\* data?.type === 'ride_request'
IsRideRequest(data) ==
    /\ data # NoData
    /\ "type" \in DOMAIN data
    /\ data["type"] = Str("ride_request")

\* ------------------------------------------------------------------ state
VARIABLES
    listeners,   \* this.listeners: event name -> sequence of callbacks
    offLog,      \* history: <<event, cb, dup>> of the last off(event, cb) since on(event, cb)
    step,        \* the operation performed by the last step
    emits,       \* the emit() calls performed by the last step
    displayed,   \* the notifee.displayNotification requests issued by the last step
    platform,    \* Platform.OS
    fcmToken,    \* this.fcmToken
    notificationInitialized,  \* this.notificationInitialized
    storage,     \* AsyncStorage: key -> string, for the keys that are set
    fgHandlers,  \* number of callbacks registered with messaging().onMessage
    bgHandler,   \* whether a background message handler is set
    refreshHandlers,  \* number of callbacks registered with messaging().onTokenRefresh
    pressHandlers,    \* number of callbacks registered with notifee.onForegroundEvent
    timers,      \* pending setTimeout callbacks of checkPendingNotifications
    tasks,       \* the asynchronous operations suspended at an await, oldest first
    screen,      \* the LoginScreen component: its useState values, route and alert
    firebase     \* Firebase phone auth: verificationId -> the number its OTP was sent to

handlerVars == <<fgHandlers, bgHandler, refreshHandlers, pressHandlers>>

tokenVars == <<fcmToken, notificationInitialized, storage>>

\* The host of the notification service: the platform and the login screen.
hostVars == <<platform, screen, firebase>>

svcVars == <<hostVars, tokenVars, handlerVars, timers, tasks>>

vars == <<listeners, offLog, step, emits, displayed, svcVars>>

Events == {"rideRequest", "tokenRefresh"}

\* Application callbacks, by what their body does when invoked.
Callbacks == {"cbA", "cbThrow", "cbOnce"}

\* The callbacks subscribed while the service handles messages.
AppCallbacks == {"cbA", "cbThrow"}

Behaviour(cb) ==
    CASE cb = "cbThrow" -> "throws"
      [] cb = "cbOnce"  -> "unsubscribes"
      [] OTHER          -> "returns"

\* this.listeners.has(event)
Has(reg, event) == event \in DOMAIN reg

TotalListeners(reg) ==
    LET RECURSIVE Sum(_)
        Sum(S) == IF S = {} THEN 0
                  ELSE LET e == CHOOSE x \in S : TRUE
                       IN Len(reg[e]) + Sum(S \ {e})
    IN Sum(DOMAIN reg)

Count(seq, x) == Cardinality({i \in 1..Len(seq) : seq[i] = x})

\* ------------------------------------------------------- event emitter
\* on(event, callback): a mutated on that keeps one sequence for all events.
onEveryEvent(reg, event, callback) ==
    [e \in {"rideRequest", "tokenRefresh"} |->
        Append(IF e \in DOMAIN reg THEN reg[e] ELSE <<>>, callback)]

\* on(event, callback): create the sequence if absent, then push.
on(reg, event, callback) ==
    LET r1 == IF Has(reg, event) THEN reg ELSE (event :> <<>>) @@ reg
    IN [r1 EXCEPT ![event] = Append(@, callback)]

\* Array.prototype.indexOf: 0-based index of the first match, -1 if none.
indexOf(callbacks, callback) ==
    IF \E i \in 1..Len(callbacks) : callbacks[i] = callback
    THEN (CHOOSE i \in 1..Len(callbacks) :
             /\ callbacks[i] = callback
             /\ \A j \in 1..(i - 1) : callbacks[j] # callback) - 1
    ELSE -1

\* callbacks.splice(index, 1) with a 0-based index.
splice(callbacks, index) ==
    SubSeq(callbacks, 1, index) \o SubSeq(callbacks, index + 2, Len(callbacks))

\* off(event, callback): a mutated off that removes the last matching instance.
offLast(reg, event, callback) ==
    IF Has(reg, event) /\ Count(reg[event], callback) > 0
    THEN LET last == CHOOSE i \in 1..Len(reg[event]) :
                        /\ reg[event][i] = callback
                        /\ \A j \in (i + 1)..Len(reg[event]) : reg[event][j] # callback
         IN [reg EXCEPT ![event] = splice(@, last - 1)]
    ELSE reg

\* off(event, callback): a mutated off whose test is index > 0.
offIndexBug(reg, event, callback) ==
    IF Has(reg, event) /\ indexOf(reg[event], callback) > 0
    THEN [reg EXCEPT ![event] = splice(@, indexOf(reg[event], callback))]
    ELSE reg

\* off(event, callback): remove the first matching instance, if any.
off(reg, event, callback) ==
    IF Has(reg, event)
    THEN LET callbacks == reg[event]
             index == indexOf(callbacks, callback)
         IN IF index > -1
            THEN [reg EXCEPT ![event] = splice(callbacks, index)]
            ELSE reg
    ELSE reg

\* What off() found when called: "none", "sole" (the only instance) or "dup".
OffKind(reg, event, callback) ==
    IF ~Has(reg, event) \/ Count(reg[event], callback) = 0 THEN "none"
    ELSE IF Count(reg[event], callback) = 1 THEN "sole" ELSE "dup"

\* The body of an application callback: its outcome and the registry after.
Invoke(reg, event, callback, data) ==
    CASE Behaviour(callback) = "throws" ->
            [listeners |-> reg, outcome |-> "threw", off |-> "no"]
      [] Behaviour(callback) = "unsubscribes" ->
            [listeners |-> off(reg, event, callback), outcome |-> "returned",
             off |-> OffKind(reg, event, callback)]
      [] OTHER ->
            [listeners |-> reg, outcome |-> "returned", off |-> "no"]

\* Array.prototype.forEach over the live array: the length is read once, an
\* index no longer present is skipped; each callback runs inside try/catch.
RECURSIVE forEach(_, _, _, _, _, _)
forEach(reg, event, data, k, len, calls) ==
    IF k >= len THEN [listeners |-> reg, calls |-> calls, raised |-> FALSE]
    ELSE IF k >= Len(reg[event]) THEN forEach(reg, event, data, k + 1, len, calls)
    ELSE LET callback == reg[event][k + 1]
             r == Invoke(reg, event, callback, data)
         IN forEach(r.listeners, event, data, k + 1, len,
                    Append(calls, [cb |-> callback, data |-> data,
                                   outcome |-> r.outcome, off |-> r.off]))

\* forEach without the try/catch: the first throwing callback ends the loop.
RECURSIVE forEachNoCatch(_, _, _, _, _, _)
forEachNoCatch(reg, event, data, k, len, calls) ==
    IF k >= len THEN [listeners |-> reg, calls |-> calls, raised |-> FALSE]
    ELSE IF k >= Len(reg[event]) THEN forEachNoCatch(reg, event, data, k + 1, len, calls)
    ELSE LET callback == reg[event][k + 1]
             r == Invoke(reg, event, callback, data)
             calls2 == Append(calls, [cb |-> callback, data |-> data,
                                      outcome |-> r.outcome, off |-> r.off])
         IN IF r.outcome = "threw"
            THEN [listeners |-> r.listeners, calls |-> calls2, raised |-> TRUE]
            ELSE forEachNoCatch(r.listeners, event, data, k + 1, len, calls2)

\* emit(event, data): a mutated emit whose loop has no try/catch.
emitNoCatch(reg, event, data) ==
    IF Has(reg, event)
    THEN forEachNoCatch(reg, event, data, 0, Len(reg[event]), <<>>)
    ELSE [listeners |-> reg, calls |-> <<>>, raised |-> FALSE]

\* A sequence without its repeated elements (first occurrences kept).
RECURSIVE Distinct(_)
Distinct(seq) ==
    IF seq = <<>> THEN <<>>
    ELSE LET front == Distinct(SubSeq(seq, 1, Len(seq) - 1))
             last == seq[Len(seq)]
         IN IF \E i \in 1..Len(front) : front[i] = last THEN front
            ELSE Append(front, last)

\* emit(event, data): a mutated emit that invokes each distinct callback once.
emitDistinct(reg, event, data) ==
    IF Has(reg, event)
    THEN LET once == [reg EXCEPT ![event] = Distinct(@)]
         IN [forEach(once, event, data, 0, Len(once[event]), <<>>)
                EXCEPT !.listeners = reg]
    ELSE [listeners |-> reg, calls |-> <<>>, raised |-> FALSE]

\* emit(event, data): invoke every listener of the event, catching each error.
emit(reg, event, data) ==
    IF Has(reg, event)
    THEN forEach(reg, event, data, 0, Len(reg[event]), <<>>)
    ELSE [listeners |-> reg, calls |-> <<>>, raised |-> FALSE]

\* The record of one emit() call kept in `emits`.
Emission(event, data, r) ==
    [event |-> event, data |-> data, calls |-> r.calls, raised |-> r.raised]

\* offLog after off(event, cb) found `kind`: the entry of the pair is replaced.
LogOff(log, event, cb, kind) ==
    {t \in log : ~(t[1] = event /\ t[2] = cb)} \cup {<<event, cb, kind = "dup">>}

\* offLog after on(event, cb): the pair is registered again.
LogOn(log, event, cb) == {t \in log : ~(t[1] = event /\ t[2] = cb)}

\* offLog after the off() calls made by the listeners of one dispatch.
RECURSIVE LogCalls(_, _, _)
LogCalls(log, event, calls) ==
    IF calls = <<>> THEN log
    ELSE LogCalls(IF Head(calls).off = "no" THEN log
                  ELSE LogOff(log, event, Head(calls).cb, Head(calls).off),
                  event, Tail(calls))

\* ------------------------------------------------------ display path
\* this.fcmToken === null
NoToken == "null"

\* The tokens messaging().getToken() may return.
Tokens == {"tokA", "tokB"}

\* remoteMessage.notification === undefined
NoNotification == [absent |-> TRUE]

\* The inbound messages the provider delivers.
Messages ==
    { [notification |-> NoNotification, data |-> NoData],
      [notification |-> [title |-> "Ride", body |-> "Pickup"],
       data |-> [type |-> Str("ride_request"), rideId |-> Num(42)]],
      [notification |-> [title |-> "Chat", body |-> ""],
       data |-> [type |-> Str("chat"), rideId |-> Bool(TRUE), extra |-> Obj]],
      [notification |-> NoNotification,
       data |-> [type |-> Str("ride_request"), rideId |-> Num(42)]] }

\* The default texts (the source's title starts with a taxi emoji).
DefaultTitle == "New Ride Request"
DefaultBody == "Tap to view ride details"

\* JavaScript truthiness of a data value.
Truthy(v) ==
    CASE v.k = "string"  -> v.s # ""
      [] v.k = "number"  -> v.n # 0
      [] v.k = "boolean" -> v.b
      [] v.k = "object"  -> TRUE

\* The onMessage callback, mutated to pass the notification texts on without
\* the default texts.
FgNotificationNoDefault(remoteMessage) ==
    [title |-> IF remoteMessage.notification # NoNotification
               THEN Str(remoteMessage.notification.title) ELSE Str(""),
     body  |-> IF remoteMessage.notification # NoNotification
               THEN Str(remoteMessage.notification.body) ELSE Str(""),
     data  |-> remoteMessage.data]

\* The argument the onMessage callback gives showLocalNotification.
FgNotification(remoteMessage) ==
    [title |-> IF remoteMessage.notification # NoNotification
                  /\ remoteMessage.notification.title # ""
               THEN Str(remoteMessage.notification.title) ELSE Str(DefaultTitle),
     body  |-> IF remoteMessage.notification # NoNotification
                  /\ remoteMessage.notification.body # ""
               THEN Str(remoteMessage.notification.body) ELSE Str(DefaultBody),
     data  |-> remoteMessage.data]

\* remoteMessage?.data?.[key] || fallback
DataOr(data, key, fallback) ==
    IF data # NoData /\ key \in DOMAIN data /\ Truthy(data[key])
    THEN data[key] ELSE Str(fallback)

\* The argument the background handler gives showLocalNotification.
BgNotification(remoteMessage) ==
    [title |-> DataOr(remoteMessage.data, "title", DefaultTitle),
     body  |-> DataOr(remoteMessage.data, "body", DefaultBody),
     data  |-> remoteMessage.data]

\* The argument testNotification gives showLocalNotification.
TestNotificationArg ==
    [title |-> Str("Sound Test"),
     body  |-> Str("This should work NOW without vibration errors!"),
     data  |-> [test |-> Str("true"), sound |-> Str("enabled"),
                type |-> Str("test_notification")]]

\* stringData: a mutated coercion that hands the values over as they are.
stringDataRaw(data) == IF data = NoData THEN EmptyMap ELSE data

\* stringData: every value of notification.data coerced with String().
stringData(data) ==
    IF data = NoData THEN EmptyMap
    ELSE [key \in DOMAIN data |-> Str(String(data[key]))]

\* showLocalNotification, mutated to render with the library defaults and the
\* data as given.
DisplayRequestPlain(notification) ==
    [title |-> notification.title,
     body |-> notification.body,
     data |-> IF notification.data = NoData THEN EmptyMap ELSE notification.data,
     channelId |-> "default",
     importance |-> "DEFAULT",
     visibility |-> "PRIVATE",
     sound |-> "default",
     pressAction |-> "default"]

\* The request showLocalNotification hands to notifee.displayNotification.
DisplayRequest(notification) ==
    [title |-> notification.title,
     body |-> notification.body,
     data |-> stringData(notification.data),
     channelId |-> "high_priority_channel",
     importance |-> "HIGH",
     visibility |-> "PUBLIC",
     sound |-> "notification",
     pressAction |-> "default"]

RenderOutcomes == {"displayed", "failed"}

\* showLocalNotification: a mutated version without the try/catch.
showLocalNotificationNoCatch(outcome) ==
    IF outcome = "failed" THEN "rejected" ELSE "resolved"

\* showLocalNotification: how the call settles once displayNotification has
\* settled with `outcome`; the catch block logs and swallows a failure.
showLocalNotification(outcome) == "resolved"

\* What a handler returns to the step that resumed it.
Resumed(reg, ems, settled) == [listeners |-> reg, emits |-> ems, settled |-> settled]

\* One emit() call made by a handler.
EmitFrom(reg, event, data) ==
    LET r == emit(reg, event, data)
    IN Resumed(r.listeners, <<Emission(event, data, r)>>,
               IF r.raised THEN "rejected" ELSE "resolved")

\* onMessage callback, mutated to emit the coerced data.
onMessageResumeCoerced(reg, remoteMessage, shown) ==
    IF shown = "rejected" THEN Resumed(reg, <<>>, "rejected")
    ELSE IF IsRideRequest(remoteMessage.data)
         THEN EmitFrom(reg, "rideRequest", stringData(remoteMessage.data))
         ELSE Resumed(reg, <<>>, "resolved")

\* onMessage callback, mutated to emit whatever the type is.
onMessageResumeAnyType(reg, remoteMessage, shown) ==
    IF shown = "rejected" THEN Resumed(reg, <<>>, "rejected")
    ELSE EmitFrom(reg, "rideRequest", remoteMessage.data)

\* onMessage callback after `await this.showLocalNotification(...)` has
\* settled as `shown`: emit rideRequest with the raw data of a ride request.
onMessageResume(reg, remoteMessage, shown) ==
    IF shown = "rejected" THEN Resumed(reg, <<>>, "rejected")
    ELSE IF IsRideRequest(remoteMessage.data)
         THEN EmitFrom(reg, "rideRequest", remoteMessage.data)
         ELSE Resumed(reg, <<>>, "resolved")

\* The order in which JSON.stringify writes the keys of a data mapping.
KeyOrder == <<"type", "rideId", "title", "body", "extra", "test", "sound">>

\* JSON.stringify of one data value.
JSONValue(v) ==
    CASE v.k = "string"  -> "\"" \o v.s \o "\""
      [] v.k = "number"  -> NumberToString(v.n)
      [] v.k = "boolean" -> (IF v.b THEN "true" ELSE "false")
      [] v.k = "object"  -> "{}"

RECURSIVE JSONMembers(_, _, _)
JSONMembers(data, i, first) ==
    IF i > Len(KeyOrder) THEN ""
    ELSE IF KeyOrder[i] \in DOMAIN data
         THEN (IF first THEN "" ELSE ",") \o "\"" \o KeyOrder[i] \o "\":"
              \o JSONValue(data[KeyOrder[i]]) \o JSONMembers(data, i + 1, FALSE)
         ELSE JSONMembers(data, i + 1, first)

\* JSON.stringify(remoteMessage.data)
JSONstringify(data) == "{" \o JSONMembers(data, 1, TRUE) \o "}"

\* AsyncStorage.setItem(key, value)
setItem(store, key, value) ==
    IF key \in DOMAIN store THEN [store EXCEPT ![key] = value] ELSE (key :> value) @@ store

\* The sequence without its i-th element.
Without(seq, i) == SubSeq(seq, 1, i - 1) \o SubSeq(seq, i + 1, Len(seq))

\* ---------------------------------------------------------- login screen
\* Strings of the login screen are sequences of characters, so that the
\* pattern test and the input filters can look at them.
Digits == {Digit[n] : n \in 1..10}

\* text.replace(/[^0-9]/g, '')
RECURSIVE digitsOnly(_)
digitsOnly(text) ==
    IF text = <<>> THEN <<>>
    ELSE (IF Head(text) \in Digits THEN <<Head(text)>> ELSE <<>>) \o digitsOnly(Tail(text))

\* useState<string | null>(null) of verificationId.
NoVerification == "null"

\* The useState initial values of LoginScreen, shown on the Login route with no
\* alert open.
InitialScreen ==
    [mobileNumber |-> <<>>, code |-> <<>>, loading |-> FALSE, resendAvailable |-> TRUE,
     resendCountdown |-> 0, otpSent |-> FALSE, verificationId |-> NoVerification,
     route |-> "Login", alert |-> "none"]

\* Firebase has sent no OTP yet.
NoSessions == [v \in {} |-> <<>>]

\* ---------------------------------------------------------------- actions
Platforms == {"android", "ios"}

Init ==
    /\ listeners = [e \in {} |-> <<>>]
    /\ offLog = {}
    /\ step = [op |-> "new"]
    /\ emits = <<>>
    /\ displayed = <<>>
    /\ platform \in Platforms
    /\ screen = InitialScreen
    /\ firebase = NoSessions
    /\ fcmToken = NoToken
    /\ notificationInitialized = FALSE
    /\ storage = [key \in {} |-> ""]
    /\ fgHandlers = 0
    /\ bgHandler = FALSE
    /\ refreshHandlers = 0
    /\ pressHandlers = 0
    /\ timers = <<>>
    /\ tasks = <<>>

\* The application subscribes a callback.
CallOn(event, cb) ==
    /\ TotalListeners(listeners) < MaxListeners
    /\ listeners' = on(listeners, event, cb)
    /\ step' = [op |-> "on", event |-> event, cb |-> cb]
    /\ emits' = <<>>
    /\ displayed' = <<>>
    /\ UNCHANGED svcVars

\* The application unsubscribes a callback.
CallOff(event, cb) ==
    /\ listeners' = off(listeners, event, cb)
    /\ step' = [op |-> "off", event |-> event, cb |-> cb,
                kind |-> OffKind(listeners, event, cb)]
    /\ emits' = <<>>
    /\ displayed' = <<>>
    /\ UNCHANGED svcVars

\* One emit(event, data) call, run to completion.
CallEmit(event, data) ==
    LET r == emit(listeners, event, data)
    IN /\ listeners' = r.listeners
       /\ step' = [op |-> "emit", event |-> event, data |-> data]
       /\ emits' = <<Emission(event, data, r)>>
       /\ displayed' = <<>>
       /\ UNCHANGED svcVars

\* The emitter alone; offLog keeps the history of the off() calls.
NextEmitter ==
    \/ \E event \in Events, cb \in Callbacks :
          CallOn(event, cb) /\ offLog' = LogOn(offLog, event, cb)
    \/ \E event \in Events, cb \in Callbacks :
          /\ CallOff(event, cb)
          /\ offLog' = LogOff(offLog, event, cb, OffKind(listeners, event, cb))
    \/ \E event \in Events, data \in EmitDataSet :
          CallEmit(event, data) /\ offLog' = LogCalls(offLog, event, emits'[1].calls)

InitEmitter == Init /\ platform = "android"

SpecEmitter == InitEmitter /\ [][NextEmitter]_vars

\* ------------------------------------------------------ message handlers
\* The asynchronous work pending: suspended operations and armed timers.
InFlight == Len(tasks) + Len(timers)

\* A task of the given kind is suspended at the given await.
At(i, kind, pc) == i \in 1..Len(tasks) /\ tasks[i].kind = kind /\ tasks[i].pc = pc

\* The provider delivers a foreground message: every callback registered with
\* onMessage starts and runs up to its await of notifee.displayNotification.
FgDeliver(m) ==
    /\ fgHandlers > 0
    /\ tasks' = tasks \o [i \in 1..fgHandlers |-> [kind |-> "fg", pc |-> "render", msg |-> m]]
    /\ displayed' = [i \in 1..fgHandlers |-> DisplayRequest(FgNotification(m))]
    /\ step' = [op |-> "fgMessage", msg |-> m]
    /\ emits' = <<>>
    /\ UNCHANGED <<listeners, offLog, hostVars, tokenVars, handlerVars, timers>>

\* A foreground message, delivered while the pending work stays in bounds.
FgMessage(m) ==
    /\ InFlight + fgHandlers <= MaxInFlight
    /\ FgDeliver(m)

\* Variant: the handlers resume in arrival order, the oldest pending one first,
\* whichever render request settled.
FgRenderedOldestFirst(i, outcome) ==
    /\ At(i, "fg", "render")
    /\ LET o == CHOOSE j \in 1..Len(tasks) :
                    /\ At(j, "fg", "render")
                    /\ \A k \in 1..(j - 1) : ~At(k, "fg", "render")
           r == onMessageResume(listeners, tasks[o].msg, showLocalNotification(outcome))
       IN /\ listeners' = r.listeners
          /\ offLog' = offLog
          /\ emits' = r.emits
          /\ step' = [op |-> "fgDone", msg |-> tasks[i].msg, data |-> tasks[i].msg.data,
                      render |-> outcome, settled |-> r.settled, position |-> i]
          /\ tasks' = Without(tasks, o)
    /\ displayed' = <<>>
    /\ UNCHANGED <<hostVars, tokenVars, handlerVars, timers>>

\* The render request of the i-th pending handler settles: that handler resumes,
\* emits if the message is a ride request, and ends.  position records how many
\* handlers that started no later were pending when it resumed.
FgRendered(i, outcome) ==
    /\ At(i, "fg", "render")
    /\ LET r == onMessageResume(listeners, tasks[i].msg, showLocalNotification(outcome))
       IN /\ listeners' = r.listeners
          /\ offLog' = offLog
          /\ emits' = r.emits
          /\ step' = [op |-> "fgDone", msg |-> tasks[i].msg, data |-> tasks[i].msg.data,
                      render |-> outcome, settled |-> r.settled, position |-> i]
    /\ tasks' = Without(tasks, i)
    /\ displayed' = <<>>
    /\ UNCHANGED <<hostVars, tokenVars, handlerVars, timers>>

\* The provider delivers a background message to the handler that is set.
BgMessage(m) ==
    /\ bgHandler
    /\ InFlight < MaxInFlight
    /\ tasks' = Append(tasks, [kind |-> "bg", pc |-> "render", msg |-> m])
    /\ displayed' = <<DisplayRequest(BgNotification(m))>>
    /\ step' = [op |-> "bgMessage", msg |-> m]
    /\ emits' = <<>>
    /\ UNCHANGED <<listeners, offLog, hostVars, tokenVars, handlerVars, timers>>

\* Background handler, mutated to store the data of every message that has some.
bgAfterDisplayStoreAll(remoteMessage, shown) ==
    IF shown = "rejected" THEN "rejected"
    ELSE IF remoteMessage.data # NoData THEN "store" ELSE "resolved"

\* Background handler, mutated to end after the display without storing.
bgAfterDisplaySkipStore(remoteMessage, shown) ==
    IF shown = "rejected" THEN "rejected" ELSE "resolved"

\* Background handler after `await this.showLocalNotification(...)` settled as
\* `shown`: a ride request goes on to AsyncStorage.setItem, anything else ends.
bgAfterDisplay(remoteMessage, shown) ==
    IF shown = "rejected" THEN "rejected"
    ELSE IF IsRideRequest(remoteMessage.data) THEN "store" ELSE "resolved"

\* The background handler, mutated to start the write without awaiting it.
BgRenderedNoAwait(i, outcome) ==
    /\ At(i, "bg", "render")
    /\ tasks' = Without(tasks, i)
    /\ step' = [op |-> "bgDone", msg |-> tasks[i].msg, data |-> tasks[i].msg.data,
                render |-> outcome, display |-> outcome,
                store |-> IF IsRideRequest(tasks[i].msg.data) THEN "pending" ELSE "none",
                settled |-> "resolved"]
    /\ emits' = <<>>
    /\ displayed' = <<>>
    /\ UNCHANGED <<listeners, offLog, hostVars, tokenVars, handlerVars, timers>>

\* The display call of the background handler settles.
BgRendered(i, outcome) ==
    /\ At(i, "bg", "render")
    /\ LET next == bgAfterDisplay(tasks[i].msg, showLocalNotification(outcome))
       IN IF next = "store"
          THEN /\ tasks' = [tasks EXCEPT ![i] = [kind |-> "bg", pc |-> "store",
                                                 msg |-> @.msg, render |-> outcome]]
               /\ step' = [op |-> "bgRendered", msg |-> tasks[i].msg,
                           data |-> tasks[i].msg.data, render |-> outcome]
          ELSE /\ tasks' = Without(tasks, i)
               /\ step' = [op |-> "bgDone", msg |-> tasks[i].msg,
                           data |-> tasks[i].msg.data, render |-> outcome,
                           display |-> outcome, store |-> "none", settled |-> next]
    /\ emits' = <<>>
    /\ displayed' = <<>>
    /\ UNCHANGED <<listeners, offLog, hostVars, tokenVars, handlerVars, timers>>

StoreOutcomes == {"stored", "failed"}

\* The setItem('pendingRideRequest', ...) of the background handler settles;
\* the await is not inside a try/catch, so a failure rejects the handler.
BgStored(i, outcome) ==
    /\ At(i, "bg", "store")
    /\ storage' = IF outcome = "stored"
                  THEN setItem(storage, "pendingRideRequest", JSONstringify(tasks[i].msg.data))
                  ELSE storage
    /\ step' = [op |-> "bgDone", msg |-> tasks[i].msg, data |-> tasks[i].msg.data,
                render |-> "settled", display |-> tasks[i].render, store |-> outcome,
                previous |-> IF "pendingRideRequest" \in DOMAIN storage
                             THEN storage["pendingRideRequest"] ELSE "",
                settled |-> IF outcome = "stored" THEN "resolved" ELSE "rejected"]
    /\ tasks' = Without(tasks, i)
    /\ emits' = <<>>
    /\ displayed' = <<>>
    /\ UNCHANGED <<listeners, offLog, hostVars, fcmToken, notificationInitialized,
                   handlerVars, timers>>

\* testNotification() is called.
TestNotification ==
    /\ InFlight < MaxInFlight
    /\ tasks' = Append(tasks, [kind |-> "test", pc |-> "render"])
    /\ displayed' = <<DisplayRequest(TestNotificationArg)>>
    /\ step' = [op |-> "testNotification"]
    /\ emits' = <<>>
    /\ UNCHANGED <<listeners, offLog, hostVars, tokenVars, handlerVars, timers>>

\* The display call of testNotification settles.
TestRendered(i, outcome) ==
    /\ At(i, "test", "render")
    /\ tasks' = Without(tasks, i)
    /\ step' = [op |-> "testDone", render |-> outcome,
                settled |-> showLocalNotification(outcome)]
    /\ emits' = <<>>
    /\ displayed' = <<>>
    /\ UNCHANGED <<listeners, offLog, hostVars, tokenVars, handlerVars, timers>>

\* ------------------------------------------------------- initialization
Handlers == {"foreground", "background", "tokenRefresh"}

\* What messaging().requestPermission() resolves to.
AuthStatuses == {"AUTHORIZED", "PROVISIONAL", "DENIED", "NOT_DETERMINED"}

\* enabled: a mutated test that only excludes DENIED.
enabledUnlessDenied(authStatus) == authStatus # "DENIED"

\* enabled: authStatus is AUTHORIZED or PROVISIONAL.
enabled(authStatus) == authStatus \in {"AUTHORIZED", "PROVISIONAL"}

\* createNotificationChannel: a mutated version without the try/catch.
createNotificationChannelNoCatch(outcome) ==
    IF outcome = "failed" THEN "rejected" ELSE "resolved"

\* createNotificationChannel: how it settles once notifee.createChannel has
\* settled with `outcome`; its catch block logs and swallows a failure.
createNotificationChannel(outcome) == "resolved"

\* getFCMToken: a mutated version that lets a provider failure through.
getFCMTokenNoCatch(result) ==
    IF result = "failed" THEN "rejected"
    ELSE IF result = "" THEN "null" ELSE "persist"

\* getFCMToken after `await messaging().getToken()` settled with `result`: a
\* token is cached and persisted, no token or a failure give null.
getFCMToken(result) ==
    IF result = "failed" THEN "null"
    ELSE IF result = "" THEN "null" ELSE "persist"

\* initializeNotifications() is called.
InitializeCall ==
    /\ tasks' = Append(tasks, [kind |-> "init", pc |-> "permission", status |-> "pending",
                               channel |-> "pending", token |-> "pending",
                               cached |-> fcmToken])
    /\ step' = [op |-> "initialize"]
    /\ emits' = <<>>
    /\ displayed' = <<>>
    /\ UNCHANGED <<listeners, offLog, hostVars, tokenVars, handlerVars, timers>>

\* initializeNotifications() is called, while the setups stay in bounds.
InitializeStart ==
    /\ fgHandlers < MaxSetups /\ refreshHandlers < MaxSetups
    /\ InFlight < MaxInFlight
    /\ InitializeCall

\* initializeNotifications returns `ret`; its task ends.
InitReturn(i, task, ret, failed) ==
    /\ tasks' = Without(tasks, i)
    /\ step' = [op |-> "initDone", ret |-> ret, settled |-> "resolved",
                status |-> task.status, channel |-> task.channel, token |-> task.token,
                cached |-> task.cached, failed |-> failed]
    /\ emits' = <<>>
    /\ displayed' = <<>>

\* setupForegroundHandler, setupBackgroundHandler, setupTokenRefreshHandler and
\* the initialized flag; a registration in `failed` throws inside its try/catch.
SetupHandlers(failed) ==
    /\ fgHandlers' = IF "foreground" \in failed THEN fgHandlers ELSE fgHandlers + 1
    /\ bgHandler' = IF "background" \in failed THEN bgHandler ELSE TRUE
    /\ refreshHandlers' = IF "tokenRefresh" \in failed THEN refreshHandlers
                          ELSE refreshHandlers + 1
    /\ notificationInitialized' = TRUE
    /\ UNCHANGED pressHandlers

\* The `!enabled` return, mutated to set the handlers up before returning.
InitAbortRegisters(i, task) ==
    /\ InitReturn(i, task, FALSE, {})
    /\ SetupHandlers({})
    /\ UNCHANGED <<listeners, offLog, hostVars, fcmToken, storage, timers>>

\* The outer catch of initializeNotifications, or the `!enabled` return.
InitAbort(i, task) ==
    /\ InitReturn(i, task, FALSE, {})
    /\ UNCHANGED <<listeners, offLog, hostVars, tokenVars, handlerVars, timers>>

\* requestPermission settles: with a status, or by throwing ("failed").
PermissionSettled(i, status) ==
    /\ At(i, "init", "permission")
    /\ IF status = "failed" \/ ~enabled(status)
       THEN InitAbort(i, [tasks[i] EXCEPT !.status = status])
       ELSE /\ tasks' = [tasks EXCEPT ![i].status = status,
                                      ![i].pc = IF platform = "android" THEN "channel"
                                                ELSE "token",
                                      ![i].channel = IF platform = "android" THEN "pending"
                                                     ELSE "skipped"]
            /\ step' = [op |-> "permission", status |-> status]
            /\ emits' = <<>>
            /\ displayed' = <<>>
            /\ UNCHANGED <<listeners, offLog, hostVars, tokenVars, handlerVars, timers>>

ChannelOutcomes == {"created", "failed"}

\* notifee.createChannel settles (android only).
ChannelSettled(i, outcome) ==
    /\ At(i, "init", "channel")
    /\ IF createNotificationChannel(outcome) = "rejected"
       THEN InitAbort(i, [tasks[i] EXCEPT !.channel = outcome])
       ELSE /\ tasks' = [tasks EXCEPT ![i].channel = outcome, ![i].pc = "token"]
            /\ step' = [op |-> "channel", outcome |-> outcome]
            /\ emits' = <<>>
            /\ displayed' = <<>>
            /\ UNCHANGED <<listeners, offLog, hostVars, tokenVars, handlerVars, timers>>

\* initializeNotifications, mutated to register the handlers as soon as the
\* token is fetched, before it is persisted.
TokenSettledRegistersFirst(i, result, failed) ==
    /\ At(i, "init", "token")
    /\ LET next == getFCMToken(result)
       IN CASE next = "rejected" ->
                 InitAbort(i, [tasks[i] EXCEPT !.token = "failed"])
            [] next = "null" ->
                 /\ InitReturn(i, [tasks[i] EXCEPT !.token = IF result = "failed" THEN "failed"
                                                              ELSE "none",
                                                   !.cached = fcmToken], TRUE, failed)
                 /\ SetupHandlers(failed)
                 /\ UNCHANGED <<listeners, offLog, hostVars, fcmToken, storage, timers>>
            [] next = "persist" ->
                 /\ failed = {}
                 /\ fcmToken' = result
                 /\ tasks' = [tasks EXCEPT ![i].pc = "persist", ![i].token = result,
                                            ![i].cached = fcmToken]
                 /\ step' = [op |-> "token", token |-> result]
                 /\ emits' = <<>>
                 /\ displayed' = <<>>
                 /\ SetupHandlers(failed)
                 /\ UNCHANGED <<listeners, offLog, hostVars, storage, timers>>

\* messaging().getToken() settles: a token, "" (no token) or "failed".
TokenSettled(i, result, failed) ==
    /\ At(i, "init", "token")
    /\ LET next == getFCMToken(result)
       IN CASE next = "rejected" ->
                 InitAbort(i, [tasks[i] EXCEPT !.token = "failed"])
            [] next = "null" ->
                 /\ InitReturn(i, [tasks[i] EXCEPT !.token = IF result = "failed" THEN "failed"
                                                              ELSE "none",
                                                   !.cached = fcmToken], TRUE, failed)
                 /\ SetupHandlers(failed)
                 /\ UNCHANGED <<listeners, offLog, hostVars, fcmToken, storage, timers>>
            [] next = "persist" ->
                 /\ failed = {}
                 /\ fcmToken' = result
                 /\ tasks' = [tasks EXCEPT ![i].pc = "persist", ![i].token = result,
                                            ![i].cached = fcmToken]
                 /\ step' = [op |-> "token", token |-> result]
                 /\ emits' = <<>>
                 /\ displayed' = <<>>
                 /\ UNCHANGED <<listeners, offLog, hostVars, notificationInitialized,
                                storage, handlerVars, timers>>

\* AsyncStorage.setItem('fcmToken', token) of getFCMToken settles; a failure is
\* caught by getFCMToken, which then returns null.  The step's `cached` is the
\* in-memory token from before getFCMToken assigned it.
TokenPersisted(i, outcome, failed) ==
    /\ At(i, "init", "persist")
    /\ storage' = IF outcome = "stored" THEN setItem(storage, "fcmToken", tasks[i].token)
                  ELSE storage
    /\ InitReturn(i, [tasks[i] EXCEPT !.token = IF outcome = "stored" THEN "stored"
                                                 ELSE "unsaved"], TRUE, failed)
    /\ SetupHandlers(failed)
    /\ UNCHANGED <<listeners, offLog, hostVars, fcmToken, timers>>

\* ------------------------------------------------------- startup replay
\* checkPendingNotifications() is called.
CheckCall ==
    /\ tasks' = Append(tasks, [kind |-> "check", pc |-> "initial"])
    /\ step' = [op |-> "checkPending"]
    /\ emits' = <<>>
    /\ displayed' = <<>>
    /\ UNCHANGED <<listeners, offLog, hostVars, tokenVars, handlerVars, timers>>

\* checkPendingNotifications() is called, while the setups stay in bounds.
CheckStart ==
    /\ pressHandlers < MaxSetups
    /\ InFlight < MaxInFlight
    /\ CheckCall

\* What notifee.getInitialNotification() settles with.
InitialResults ==
    {[kind |-> "none"], [kind |-> "failed"]}
       \cup {[kind |-> "notification", data |-> d] : d \in DataSet}

\* The delay of the startup replay, in milliseconds.
ReplayDelay == 3000

\* setTimeout(callback, delay): the timer armed for a replay of `data`; `armed`
\* remembers how many rideRequest listeners there were when it was armed.
Timer(reg, data) ==
    [data |-> data, delay |-> ReplayDelay,
     armed |-> IF Has(reg, "rideRequest") THEN Len(reg["rideRequest"]) ELSE 0]

\* checkPendingNotifications, mutated to emit the replay at once.
InitialSettledNoDelay(i, result, registerFails) ==
    /\ At(i, "check", "initial")
    /\ result.kind = "failed" => ~registerFails
    /\ LET r == IF result.kind = "notification" /\ IsRideRequest(result.data)
                THEN EmitFrom(listeners, "rideRequest", result.data)
                ELSE Resumed(listeners, <<>>, "resolved")
       IN /\ listeners' = r.listeners
          /\ emits' = r.emits
    /\ pressHandlers' = IF result.kind = "failed" \/ registerFails THEN pressHandlers
                        ELSE pressHandlers + 1
    /\ tasks' = Without(tasks, i)
    /\ step' = [op |-> "checkDone", initial |-> result, settled |-> "resolved"]
    /\ displayed' = <<>>
    /\ UNCHANGED <<offLog, hostVars, tokenVars, fgHandlers, bgHandler,
                   refreshHandlers, timers>>

\* notifee.getInitialNotification() settles: a ride request schedules the
\* delayed emit, then the press listener is registered; a failure (of the
\* query, or `registerFails` of the registration) is caught and logged.
InitialSettled(i, result, registerFails) ==
    /\ At(i, "check", "initial")
    /\ result.kind = "failed" => ~registerFails
    /\ timers' = IF result.kind = "notification" /\ IsRideRequest(result.data)
                 THEN Append(timers, Timer(listeners, result.data)) ELSE timers
    /\ pressHandlers' = IF result.kind = "failed" \/ registerFails THEN pressHandlers
                        ELSE pressHandlers + 1
    /\ tasks' = Without(tasks, i)
    /\ step' = [op |-> "checkDone", initial |-> result, settled |-> "resolved"]
    /\ emits' = <<>>
    /\ displayed' = <<>>
    /\ UNCHANGED <<listeners, offLog, hostVars, tokenVars, fgHandlers, bgHandler,
                   refreshHandlers>>

\* The 3000 ms timer of the startup replay fires: its callback emits.
TimerFired ==
    /\ timers # <<>>
    /\ LET r == EmitFrom(listeners, "rideRequest", Head(timers).data)
       IN /\ listeners' = r.listeners
          /\ offLog' = offLog
          /\ emits' = r.emits
          /\ step' = [op |-> "timer", data |-> Head(timers).data,
                      delay |-> Head(timers).delay, armed |-> Head(timers).armed,
                      settled |-> r.settled]
    /\ timers' = Tail(timers)
    /\ displayed' = <<>>
    /\ UNCHANGED <<hostVars, tokenVars, handlerVars, tasks>>

EventTypes == {"press", "dismissed"}

\* detail.notification of a foreground event: absent, or with its data.
Details == {NoNotification} \cup {[data |-> d] : d \in DataSet}

\* The foreground-event callback, mutated to react to events of every type.
onForegroundEventAnyType(reg, type, detail) ==
    IF detail # NoNotification /\ IsRideRequest(detail.data)
    THEN EmitFrom(reg, "rideRequest", detail.data)
    ELSE Resumed(reg, <<>>, "resolved")

\* The callback given to notifee.onForegroundEvent.
onForegroundEvent(reg, type, detail) ==
    IF type = "press" /\ detail # NoNotification /\ IsRideRequest(detail.data)
    THEN EmitFrom(reg, "rideRequest", detail.data)
    ELSE Resumed(reg, <<>>, "resolved")

\* Every registered foreground-event callback runs, one after the other.
RECURSIVE onForegroundEventAll(_, _, _, _, _)
onForegroundEventAll(reg, n, type, detail, ems) ==
    IF n = 0 THEN Resumed(reg, ems, "resolved")
    ELSE LET r == onForegroundEvent(reg, type, detail)
             rest == onForegroundEventAll(r.listeners, n - 1, type, detail, ems \o r.emits)
         IN Resumed(rest.listeners, rest.emits,
                    IF r.settled = "rejected" THEN "rejected" ELSE rest.settled)

\* notifee delivers a foreground event (a press, or another type).
NotificationEvent(type, detail) ==
    /\ pressHandlers > 0
    /\ LET r == onForegroundEventAll(listeners, pressHandlers, type, detail, <<>>)
       IN /\ listeners' = r.listeners
          /\ offLog' = offLog
          /\ emits' = r.emits
          /\ step' = [op |-> "notificationEvent", type |-> type, detail |-> detail,
                      data |-> IF detail = NoNotification THEN NoData ELSE detail.data,
                      settled |-> r.settled]
    /\ displayed' = <<>>
    /\ UNCHANGED <<hostVars, tokenVars, handlerVars, timers, tasks>>

\* -------------------------------------------------------- token refresh
\* AsyncStorage.getItem(key) when the read succeeds: the value, or null.
getItem(store, key) ==
    IF key \in DOMAIN store THEN [found |-> TRUE, value |-> store[key]]
    ELSE [found |-> FALSE, value |-> ""]

AuthReadOutcomes == {"read", "failed"}

\* What the remote update of the token ends with: a 2xx response, another
\* response, or fetch throwing.
FetchOutcomes == {"ok", "status500", "threw"}

\* Token-refresh callback after `await AsyncStorage.getItem("authToken")`: with
\* a truthy auth token it goes on to fetch, otherwise (null, "", or the read
\* threw into the catch) it skips the remote update.
onTokenRefreshAfterAuth(store, outcome) ==
    IF outcome = "failed" THEN "skip:readFailed"
    ELSE LET authToken == getItem(store, "authToken")
         IN IF authToken.found /\ authToken.value # "" THEN "fetch" ELSE "skip:noAuth"

\* Token-refresh callback, mutated to give up when the remote update failed.
onTokenRefreshResumeUnlessFailed(reg, newToken, remote) ==
    IF remote \in {"ok", "skip:noAuth"}
    THEN EmitFrom(reg, "tokenRefresh", Str(newToken))
    ELSE Resumed(reg, <<>>, "resolved")

\* Token-refresh callback once the remote update is over (`remote` tells how):
\* the inner try/catch is behind it and it emits tokenRefresh with newToken.
onTokenRefreshResume(reg, newToken, remote) ==
    EmitFrom(reg, "tokenRefresh", Str(newToken))

\* The backend URL.
API_BASE == "https://backendddd-2xa6.onrender.com"

\* The request the refresh callback gives fetch.
UpdateRequest(newToken, authToken, os) ==
    [method |-> "POST",
     url |-> API_BASE \o "/drivers/update-fcm-token",
     contentType |-> "application/json",
     authorization |-> "Bearer " \o authToken,
     body |-> [driverId |-> "YOUR_DRIVER_ID", fcmToken |-> newToken, platform |-> os]]

\* The refresh callback, mutated to post again after a request that failed.
onTokenRefreshAfterFetchRetry(outcome) ==
    IF outcome = "ok" THEN "emit" ELSE "fetch"

\* The refresh callback after `await fetch(...)` settled: whatever the outcome
\* (logged when ok, caught when it threw) it leaves the try block and emits.
onTokenRefreshAfterFetch(outcome) == "emit"

\* The provider refreshes the token: every callback registered with
\* onTokenRefresh starts and runs up to its await of AsyncStorage.getItem.
TokenRefresh(newToken) ==
    /\ refreshHandlers > 0
    /\ InFlight + refreshHandlers <= MaxInFlight
    /\ tasks' = tasks \o [i \in 1..refreshHandlers |->
                             [kind |-> "refresh", pc |-> "auth", token |-> newToken,
                              posts |-> 0]]
    /\ step' = [op |-> "tokenRefresh", token |-> newToken]
    /\ emits' = <<>>
    /\ displayed' = <<>>
    /\ UNCHANGED <<listeners, offLog, hostVars, tokenVars, handlerVars, timers>>

\* A refresh callback ends: it emits and its task is over.
RefreshDone(i, remote) ==
    LET r == onTokenRefreshResume(listeners, tasks[i].token, remote)
    IN /\ listeners' = r.listeners
       /\ offLog' = offLog
       /\ emits' = r.emits
       /\ step' = [op |-> "refreshDone", token |-> tasks[i].token, remote |-> remote,
                   posts |-> tasks[i].posts, settled |-> r.settled]
       /\ tasks' = Without(tasks, i)
       /\ displayed' = <<>>
       /\ UNCHANGED <<hostVars, tokenVars, handlerVars, timers>>

\* The refresh callback calls fetch and is suspended on it.
PostUpdate(i, op) ==
    /\ tasks' = [tasks EXCEPT ![i].pc = "fetch", ![i].posts = @ + 1]
    /\ step' = [op |-> op, token |-> tasks[i].token,
                request |-> UpdateRequest(tasks[i].token, storage["authToken"], platform)]
    /\ emits' = <<>>
    /\ displayed' = <<>>
    /\ UNCHANGED <<listeners, offLog, hostVars, tokenVars, handlerVars, timers>>

\* The read of the stored auth token settles.
AuthRead(i, outcome) ==
    /\ At(i, "refresh", "auth")
    /\ LET next == onTokenRefreshAfterAuth(storage, outcome)
       IN IF next = "fetch" THEN PostUpdate(i, "authRead") ELSE RefreshDone(i, next)

\* The POST to /drivers/update-fcm-token settles.
FetchSettled(i, outcome) ==
    /\ At(i, "refresh", "fetch")
    /\ IF onTokenRefreshAfterFetch(outcome) = "fetch"
       THEN PostUpdate(i, "retry")
       ELSE RefreshDone(i, outcome)

\* ---------------------------------------------------------- login: sendOTP
\* What the login screen leaves alone: the notification service.
serviceVars ==
    <<listeners, offLog, platform, fcmToken, notificationInitialized, handlerVars, timers>>

\* A driver's number, and another valid number.
DriverPhone == <<"9", "8", "7", "6", "5", "4", "3", "2", "1", "0">>

OtherPhone == <<"6", "0", "0", "0", "0", "0", "0", "0", "0", "1">>

\* Texts typed into the mobile-number field (at most maxLength characters).
MobileTexts == {<<>>, DriverPhone, OtherPhone, <<"1", "2", "a", "3">>}

\* Texts typed into the OTP field.
CodeTexts == {<<>>, <<"1", "2", "3", "4", "5", "x">>}

\* /^[6-9]\d{9}$/.test(phone)
isValidPhoneNumber(phone) ==
    /\ Len(phone) = 10
    /\ phone[1] \in {"6", "7", "8", "9"}
    /\ \A i \in 2..10 : phone[i] \in Digits

\* `+91${phone}`
formattedPhone(phone) == <<"+", "9", "1">> \o phone

\* The verification ids Firebase hands out, one per OTP it sends.
VerificationIds == {"vid" \o Digit[n + 1] : n \in 1..MaxSessions}

\* The id of the next OTP session: one that was not handed out before.
NextVerificationId(sessions) == "vid" \o Digit[Cardinality(DOMAIN sessions) + 2]

\* The screen can be used: it is shown and no alert is over it.
Usable == screen.route = "Login" /\ screen.alert = "none"

\* A step of the login screen: nothing is emitted or displayed.
LoginStep(s) ==
    /\ step' = s
    /\ emits' = <<>>
    /\ displayed' = <<>>
    /\ UNCHANGED serviceVars

\* onChangeText of the mobile-number input (editable unless loading).
ChangeMobileNumber(text) ==
    /\ Usable
    /\ ~screen.loading
    /\ Len(text) <= 10
    /\ screen' = [screen EXCEPT !.mobileNumber = digitsOnly(text)]
    /\ LoginStep([op |-> "changeMobileNumber", text |-> text])
    /\ UNCHANGED <<storage, tasks, firebase>>

\* onChangeText of the OTP input, which is shown once an OTP was sent.
ChangeCode(text) ==
    /\ Usable
    /\ screen.otpSent
    /\ ~screen.loading
    /\ Len(text) <= 6
    /\ screen' = [screen EXCEPT !.code = digitsOnly(text)]
    /\ LoginStep([op |-> "changeCode", text |-> text])
    /\ UNCHANGED <<storage, tasks, firebase>>

\* The resend-countdown effect after a render: a running countdown makes the
\* resend unavailable.
countdownEffect(sc) ==
    IF sc.resendCountdown > 0 THEN [sc EXCEPT !.resendAvailable = FALSE] ELSE sc

\* The updater, mutated to stop at 0 without making the resend available.
countdownTickKeepsHold(sc) ==
    IF sc.resendCountdown <= 1
    THEN [sc EXCEPT !.resendCountdown = 0]
    ELSE [sc EXCEPT !.resendCountdown = @ - 1]

\* The updater the one-second interval gives setResendCountdown.
countdownTick(sc) ==
    IF sc.resendCountdown <= 1
    THEN [sc EXCEPT !.resendAvailable = TRUE, !.resendCountdown = 0]
    ELSE [sc EXCEPT !.resendCountdown = @ - 1]

\* The seconds a resend is held back after an OTP was sent.
ResendSeconds == 30

\* The interval of the countdown effect fires; it exists while the screen is
\* mounted with a countdown above 0.
Tick ==
    /\ screen.route = "Login"
    /\ screen.resendCountdown > 0
    /\ screen' = countdownEffect(countdownTick(screen))
    /\ LoginStep([op |-> "tick", from |-> screen.resendCountdown])
    /\ UNCHANGED <<storage, tasks, firebase>>

\* The validation at the head of sendOTP: the alert it shows, or "check".
sendOTPStart(phone) ==
    IF phone = <<>> THEN "Please enter your mobile number."
    ELSE IF ~isValidPhoneNumber(phone)
         THEN "Please enter a valid 10-digit Indian mobile number."
         ELSE "check"

\* The send buttons, mutated to stay enabled.
sendDisabledNever(sc) == FALSE

\* disabled= of the Send OTP button, and of the Resend OTP button that replaces
\* it once an OTP was sent.
sendDisabled(sc) ==
    IF sc.otpSent THEN sc.loading \/ ~sc.resendAvailable ELSE sc.loading

\* The finally block of sendOTP and verifyOTP.
finally(sc) == [sc EXCEPT !.loading = FALSE]

\* Send OTP or Resend OTP is pressed: sendOTP(mobileNumber) runs up to its
\* first await, the driver check.
PressSendOTP ==
    /\ Usable
    /\ ~sendDisabled(screen)
    /\ LET phone == screen.mobileNumber
           start == sendOTPStart(phone)
       IN IF start = "check"
          THEN /\ screen' = [screen EXCEPT !.loading = TRUE]
               /\ tasks' = Append(tasks, [kind |-> "send", pc |-> "check", phone |-> phone,
                                          verificationId |-> NoVerification])
               /\ LoginStep([op |-> "sendOTP", phone |-> phone, alert |-> "none",
                             requested |-> <<>>])
          ELSE /\ UNCHANGED <<screen, tasks>>
               /\ LoginStep([op |-> "sendOTP", phone |-> phone, alert |-> start,
                             requested |-> <<>>])
    /\ UNCHANGED <<storage, firebase>>

\* What the driver check ends with: success true, success false, a 404
\* response, or another failure (network, timeout, other status).
CheckOutcomes == {"found", "notFound", "404", "error"}

\* sendOTP after the driver check, mutated to go on whatever the backend says.
afterDriverCheckAlways(outcome) == "firebase"

\* sendOTP after `await axios.post(.../request-driver-otp)`: an unregistered
\* number returns, anything else goes on to Firebase.
afterDriverCheck(outcome) ==
    IF outcome \in {"notFound", "404"} THEN "return" ELSE "firebase"

\* sendOTP ends: the finally block runs and the task is over.
SendReturn(i, sc, s) ==
    /\ screen' = countdownEffect(finally(sc))
    /\ tasks' = Without(tasks, i)
    /\ LoginStep(s)

\* The driver check settles.
DriverCheckSettled(i, outcome) ==
    /\ At(i, "send", "check")
    /\ IF afterDriverCheck(outcome) = "return"
       THEN SendReturn(i, screen, [op |-> "sendDone", phone |-> tasks[i].phone,
                                   result |-> "notRegistered", check |-> outcome,
                                   requested |-> <<>>])
       ELSE /\ tasks' = [tasks EXCEPT ![i].pc = "firebase"]
            /\ LoginStep([op |-> "driverCheck", phone |-> tasks[i].phone, check |-> outcome,
                          requested |-> formattedPhone(tasks[i].phone)])
            /\ UNCHANGED screen
    /\ UNCHANGED <<storage, firebase>>

\* signInWithPhoneNumber settles: with a confirmation for a new verification
\* id, or by throwing into the Firebase catch.
OtpRequestSettled(i, vid) ==
    /\ At(i, "send", "firebase")
    /\ IF vid = "failed"
       THEN /\ SendReturn(i, screen, [op |-> "sendDone", phone |-> tasks[i].phone,
                                      result |-> "firebaseError", requested |-> <<>>])
            /\ UNCHANGED firebase
       ELSE /\ vid \in VerificationIds
            /\ vid = NextVerificationId(firebase)
            /\ firebase' = (vid :> tasks[i].phone) @@ firebase
            /\ screen' = [screen EXCEPT !.verificationId = vid]
            /\ tasks' = [tasks EXCEPT ![i].pc = "saveVerificationId",
                                       ![i].verificationId = vid]
            /\ LoginStep([op |-> "otpRequested", phone |-> tasks[i].phone,
                          verificationId |-> vid, requested |-> <<>>])
    /\ UNCHANGED storage

\* AsyncStorage.setItem('verificationId', ...) of sendOTP settles.
VerificationIdSaved(i, outcome) ==
    /\ At(i, "send", "saveVerificationId")
    /\ IF outcome = "stored"
       THEN /\ storage' = setItem(storage, "verificationId", tasks[i].verificationId)
            /\ tasks' = [tasks EXCEPT ![i].pc = "savePhoneNumber"]
            /\ LoginStep([op |-> "verificationIdSaved", phone |-> tasks[i].phone,
                          requested |-> <<>>])
            /\ UNCHANGED screen
       ELSE /\ SendReturn(i, screen, [op |-> "sendDone", phone |-> tasks[i].phone,
                                      result |-> "firebaseError", requested |-> <<>>])
            /\ UNCHANGED storage
    /\ UNCHANGED firebase

\* AsyncStorage.setItem('phoneNumber', phone) of sendOTP settles: on success
\* the OTP input is shown and the resend countdown starts.
PhoneNumberSaved(i, outcome) ==
    /\ At(i, "send", "savePhoneNumber")
    /\ IF outcome = "stored"
       THEN /\ storage' = setItem(storage, "phoneNumber", tasks[i].phone)
            /\ SendReturn(i, [screen EXCEPT !.otpSent = TRUE,
                                            !.resendCountdown = ResendSeconds],
                          [op |-> "sendDone", phone |-> tasks[i].phone,
                           result |-> "sent", verificationId |-> tasks[i].verificationId,
                           requested |-> <<>>])
       ELSE /\ SendReturn(i, screen, [op |-> "sendDone", phone |-> tasks[i].phone,
                                      result |-> "firebaseError", requested |-> <<>>])
            /\ UNCHANGED storage
    /\ UNCHANGED firebase

\* -------------------------------------------------------- login: verifyOTP
\* The characters of a string, joined.
RECURSIVE JoinChars(_)
JoinChars(text) == IF text = <<>> THEN "" ELSE Head(text) \o JoinChars(Tail(text))

\* a || b on strings
StringOr(a, b) == IF a # "" THEN a ELSE b

\* response.data of a successful get-driver-info: the token the backend issues
\* and the driver record (this driver has no vehicle type on record).
DriverInfoResponse(phone) ==
    [token |-> "jwt",
     driver |-> [driverId |-> "DRV" \o JoinChars(phone), name |-> "Asha",
                 vehicleType |-> "", vehicleNumber |-> "TN01AB1234"]]

\* Date.now()
Now == "1700000000000"

\* The driver the backend-error path makes up.
minimalDriver(mobileNumber) ==
    [driverId |-> "temp-" \o JoinChars(mobileNumber), name |-> "Driver",
     phone |-> JoinChars(mobileNumber), vehicleType |-> "Unknown",
     vehicleNumber |-> "N/A", status |-> "Live", wallet |-> 0]

\* JSON.stringify of a driver object: its members in insertion order.
JSONdriver(d) ==
    "{\"driverId\":\"" \o d.driverId \o "\",\"name\":\"" \o d.name
       \o (IF "phone" \in DOMAIN d THEN "\",\"phone\":\"" \o d.phone ELSE "")
       \o "\",\"vehicleType\":\"" \o d.vehicleType
       \o "\",\"vehicleNumber\":\"" \o d.vehicleNumber \o "\""
       \o (IF "status" \in DOMAIN d
           THEN ",\"status\":\"" \o d.status \o "\",\"wallet\":" \o NumberToString(d.wallet)
           ELSE "")
       \o "}"

\* AsyncStorage.multiSet(pairs): every pair is set.
RECURSIVE multiSet(_, _)
multiSet(store, pairs) ==
    IF pairs = <<>> THEN store
    ELSE multiSet(setItem(store, Head(pairs)[1], Head(pairs)[2]), Tail(pairs))

\* AsyncStorage.removeItem(key)
removeItem(store, key) == [k \in DOMAIN store \ {key} |-> store[k]]

\* The pairs verifyOTP saves after a successful get-driver-info.
backendPairs(data, mobileNumber, uid) ==
    <<<<"authToken", data.token>>,
      <<"driverInfo", JSONdriver(data.driver)>>,
      <<"phoneNumber", mobileNumber>>,
      <<"firebaseUid", uid>>,
      <<"driverId", StringOr(data.driver.driverId, "")>>,
      <<"driverName", StringOr(data.driver.name, "")>>,
      <<"vehicleType", StringOr(data.driver.vehicleType, "taxi")>>,
      <<"vehicleNumber", StringOr(data.driver.vehicleNumber, "N/A")>>>>

\* The pairs verifyOTP saves in its backend-error path.
fallbackPairs(mobileNumber, uid, now) ==
    LET d == minimalDriver(mobileNumber)
    IN <<<<"authToken", "firebase-temp-token-" \o now>>,
         <<"driverInfo", JSONdriver(d)>>,
         <<"phoneNumber", mobileNumber>>,
         <<"firebaseUid", uid>>,
         <<"driverId", d.driverId>>,
         <<"driverName", d.name>>,
         <<"vehicleType", d.vehicleType>>,
         <<"vehicleNumber", d.vehicleNumber>>>>

\* user.uid of the Firebase account of a phone number.
uidOf(phone) == "uid-" \o JoinChars(phone)

\* verifyOTP, mutated to go to Firebase without looking at its inputs.
verifyOTPStartAlways(code, verificationId) == "verify"

\* The preconditions at the head of verifyOTP: the alert shown, or "verify".
verifyOTPStart(code, verificationId) ==
    IF code = <<>> THEN "Please enter OTP."
    ELSE IF verificationId = NoVerification
         THEN "No OTP session found. Please request a new OTP."
         ELSE "verify"

\* Verify OTP is pressed (the button is there once an OTP was sent): verifyOTP
\* runs with the code, verificationId and mobileNumber of this render, up to
\* its await of signInWithCredential.
PressVerifyOTP ==
    /\ Usable
    /\ screen.otpSent
    /\ ~screen.loading
    /\ LET start == verifyOTPStart(screen.code, screen.verificationId)
       IN IF start = "verify"
          THEN /\ screen' = [screen EXCEPT !.loading = TRUE]
               /\ tasks' = Append(tasks, [kind |-> "verify", pc |-> "credential",
                                          code |-> screen.code,
                                          verificationId |-> screen.verificationId,
                                          mobileNumber |-> screen.mobileNumber,
                                          uid |-> "", token |-> "", backend |-> "pending"])
               /\ LoginStep([op |-> "verifyOTP", code |-> screen.code,
                             verificationId |-> screen.verificationId, alert |-> "none"])
          ELSE /\ UNCHANGED <<screen, tasks>>
               /\ LoginStep([op |-> "verifyOTP", code |-> screen.code,
                             verificationId |-> screen.verificationId, alert |-> start])
    /\ UNCHANGED <<storage, firebase>>

\* verifyOTP ends: the finally block runs and the task is over.
VerifyReturn(i, sc, result) ==
    /\ screen' = finally(sc)
    /\ tasks' = Without(tasks, i)
    /\ LoginStep([op |-> "verifyDone", result |-> result, code |-> tasks[i].code,
                  verificationId |-> tasks[i].verificationId,
                  mobileNumber |-> tasks[i].mobileNumber, uid |-> tasks[i].uid,
                  backend |-> tasks[i].backend])

\* The outer catch of verifyOTP: an alert says why, and the OTP input is cleared.
VerifyFailed(i, result) ==
    VerifyReturn(i, [screen EXCEPT !.code = <<>>], result)

\* What signInWithCredential settles with.
CredentialOutcomes == {"accepted", "auth/invalid-verification-code", "auth/code-expired"}

\* signInWithCredential settles: Firebase accepts the code for the OTP session
\* of the verification id and signs that number's account in, or rejects it.
CredentialSettled(i, outcome) ==
    /\ At(i, "verify", "credential")
    /\ IF outcome = "accepted"
       THEN /\ tasks[i].verificationId \in DOMAIN firebase
            /\ tasks' = [tasks EXCEPT ![i].pc = "driverInfo",
                                       ![i].uid = uidOf(firebase[tasks[i].verificationId])]
            /\ LoginStep([op |-> "credential", outcome |-> outcome,
                          verificationId |-> tasks[i].verificationId])
            /\ UNCHANGED screen
       ELSE VerifyFailed(i, outcome)
    /\ UNCHANGED <<storage, firebase>>

\* What get-driver-info ends with: success true, success false, or a failure.
DriverInfoOutcomes == {"success", "noSuccess", "error"}

\* The get-driver-info request settles: success goes on to save the driver,
\* anything else is thrown into the backend-error path.
DriverInfoSettled(i, outcome) ==
    /\ At(i, "verify", "driverInfo")
    /\ tasks' = [tasks EXCEPT ![i].pc = IF outcome = "success" THEN "multiSet"
                                        ELSE "fallbackSet",
                               ![i].backend = outcome]
    /\ LoginStep([op |-> "driverInfo", outcome |-> outcome,
                  phoneNumber |-> tasks[i].mobileNumber])
    /\ UNCHANGED <<screen, storage, firebase>>

\* The multiSet of the success path settles; a failure is caught by the
\* backend-error path.
DriverSaved(i, outcome) ==
    /\ At(i, "verify", "multiSet")
    /\ IF outcome = "stored"
       THEN /\ storage' = multiSet(storage, backendPairs(DriverInfoResponse(tasks[i].mobileNumber),
                                                         tasks[i].mobileNumber, tasks[i].uid))
            /\ tasks' = [tasks EXCEPT ![i].pc = "removeItem"]
       ELSE /\ tasks' = [tasks EXCEPT ![i].pc = "fallbackSet"]
            /\ UNCHANGED storage
    /\ LoginStep([op |-> "driverSaved", outcome |-> outcome])
    /\ UNCHANGED <<screen, firebase>>

\* removeItem('verificationId') of the success path settles: the screen
\* navigates to Screen1; a failure is caught by the backend-error path.
SessionCleared(i, outcome) ==
    /\ At(i, "verify", "removeItem")
    /\ IF outcome = "stored"
       THEN /\ storage' = removeItem(storage, "verificationId")
            /\ VerifyReturn(i, [screen EXCEPT !.route = "Screen1"], "backend")
       ELSE /\ tasks' = [tasks EXCEPT ![i].pc = "fallbackSet"]
            /\ LoginStep([op |-> "sessionKept"])
            /\ UNCHANGED <<screen, storage>>
    /\ UNCHANGED firebase

\* The multiSet of the backend-error path settles; a failure goes to the outer
\* catch.
FallbackSaved(i, outcome) ==
    /\ At(i, "verify", "fallbackSet")
    /\ IF outcome = "stored"
       THEN /\ storage' = multiSet(storage, fallbackPairs(tasks[i].mobileNumber,
                                                          tasks[i].uid, Now))
            /\ tasks' = [tasks EXCEPT ![i].pc = "fallbackRemove"]
            /\ LoginStep([op |-> "fallbackSaved"])
            /\ UNCHANGED screen
       ELSE /\ VerifyFailed(i, "storageError")
            /\ UNCHANGED storage
    /\ UNCHANGED firebase

\* removeItem('verificationId') of the backend-error path settles: the
\* 'Logged In' alert is shown; a failure goes to the outer catch.
FallbackCleared(i, outcome) ==
    /\ At(i, "verify", "fallbackRemove")
    /\ IF outcome = "stored"
       THEN /\ storage' = removeItem(storage, "verificationId")
            /\ VerifyReturn(i, [screen EXCEPT !.alert = "Logged In"], "fallback")
       ELSE /\ VerifyFailed(i, "storageError")
            /\ UNCHANGED storage
    /\ UNCHANGED firebase

\* Continue of the 'Logged In' alert is pressed: the screen navigates.
PressContinue ==
    /\ screen.route = "Login"
    /\ screen.alert = "Logged In"
    /\ screen' = [screen EXCEPT !.alert = "none", !.route = "Screen1"]
    /\ LoginStep([op |-> "continue"])
    /\ UNCHANGED <<storage, tasks, firebase>>

\* ---------------------------------------------------- login: fresh mount
\* A login task is suspended at an await.
LoginBusy == \E i \in 1..Len(tasks) : tasks[i].kind \in {"send", "verify", "restore"}

\* The login screen is mounted afresh: its state is the initial one and the
\* mount effect starts restoreVerification, which runs up to its first await.
Mount ==
    /\ ~LoginBusy
    /\ screen' = InitialScreen
    /\ tasks' = Append(tasks, [kind |-> "restore", pc |-> "verificationId",
                               storedVerificationId |-> [found |-> FALSE, value |-> ""]])
    /\ LoginStep([op |-> "mount"])
    /\ UNCHANGED <<storage, firebase>>

\* AsyncStorage.getItem('verificationId') of restoreVerification settles; a
\* failure is caught and logged.
StoredVerificationIdRead(i, outcome) ==
    /\ At(i, "restore", "verificationId")
    /\ IF outcome = "read"
       THEN tasks' = [tasks EXCEPT ![i].pc = "phoneNumber",
                                   ![i].storedVerificationId = getItem(storage, "verificationId")]
       ELSE tasks' = Without(tasks, i)
    /\ LoginStep([op |-> "restoreRead", outcome |-> outcome])
    /\ UNCHANGED <<screen, storage, firebase>>

\* restoreVerification, mutated to leave the mobile number as it is.
restoreVerificationIdOnly(sc, storedVerificationId, phoneFound, storedPhone) ==
    IF /\ storedVerificationId.found /\ storedVerificationId.value # ""
       /\ phoneFound /\ storedPhone # <<>>
    THEN [sc EXCEPT !.verificationId = storedVerificationId.value,
                    !.otpSent = TRUE]
    ELSE sc

\* restoreVerification after both reads: with both values truthy the session
\* is restored.
restoreVerification(sc, storedVerificationId, phoneFound, storedPhone) ==
    IF /\ storedVerificationId.found /\ storedVerificationId.value # ""
       /\ phoneFound /\ storedPhone # <<>>
    THEN [sc EXCEPT !.verificationId = storedVerificationId.value,
                    !.mobileNumber = storedPhone,
                    !.otpSent = TRUE]
    ELSE sc

\* AsyncStorage.getItem('phoneNumber') of restoreVerification settles.
StoredPhoneRead(i, outcome) ==
    /\ At(i, "restore", "phoneNumber")
    /\ screen' = IF outcome = "read"
                 THEN restoreVerification(screen, tasks[i].storedVerificationId,
                                          "phoneNumber" \in DOMAIN storage,
                                          IF "phoneNumber" \in DOMAIN storage
                                          THEN storage["phoneNumber"] ELSE <<>>)
                 ELSE screen
    /\ tasks' = Without(tasks, i)
    /\ LoginStep([op |-> "restored", outcome |-> outcome,
                  storedVerificationId |-> tasks[i].storedVerificationId])
    /\ UNCHANGED <<storage, firebase>>

\* ------------------------------------------------------ specifications
\* The login screen from its first mount, on a device with empty storage.
InitLogin ==
    /\ listeners = [e \in {} |-> <<>>]
    /\ offLog = {}
    /\ step = [op |-> "mount"]
    /\ emits = <<>>
    /\ displayed = <<>>
    /\ platform = "android"
    /\ screen = InitialScreen
    /\ firebase = NoSessions
    /\ fcmToken = NoToken
    /\ notificationInitialized = FALSE
    /\ storage = [key \in {} |-> ""]
    /\ fgHandlers = 0
    /\ bgHandler = FALSE
    /\ refreshHandlers = 0
    /\ pressHandlers = 0
    /\ timers = <<>>
    /\ tasks = <<[kind |-> "restore", pc |-> "verificationId",
                  storedVerificationId |-> [found |-> FALSE, value |-> ""]]>>

\* The login screen is used and mounted afresh, between the ticks of the resend
\* countdown (a resend becomes available again through a fresh mount).
NextLogin ==
    \/ \E text \in MobileTexts : ChangeMobileNumber(text)
    \/ \E text \in CodeTexts : ChangeCode(text)
    \/ PressSendOTP
    \/ \E i \in 1..Len(tasks), outcome \in CheckOutcomes : DriverCheckSettled(i, outcome)
    \/ \E i \in 1..Len(tasks), vid \in VerificationIds \cup {"failed"} :
          OtpRequestSettled(i, vid)
    \/ \E i \in 1..Len(tasks), outcome \in StoreOutcomes : VerificationIdSaved(i, outcome)
    \/ \E i \in 1..Len(tasks), outcome \in StoreOutcomes : PhoneNumberSaved(i, outcome)
    \/ PressVerifyOTP
    \/ \E i \in 1..Len(tasks), outcome \in CredentialOutcomes : CredentialSettled(i, outcome)
    \/ \E i \in 1..Len(tasks), outcome \in DriverInfoOutcomes : DriverInfoSettled(i, outcome)
    \/ \E i \in 1..Len(tasks), outcome \in StoreOutcomes : DriverSaved(i, outcome)
    \/ \E i \in 1..Len(tasks), outcome \in StoreOutcomes : SessionCleared(i, outcome)
    \/ \E i \in 1..Len(tasks), outcome \in StoreOutcomes : FallbackSaved(i, outcome)
    \/ \E i \in 1..Len(tasks), outcome \in StoreOutcomes : FallbackCleared(i, outcome)
    \/ PressContinue
    \/ Mount
    \/ \E i \in 1..Len(tasks), outcome \in AuthReadOutcomes : StoredVerificationIdRead(i, outcome)
    \/ \E i \in 1..Len(tasks), outcome \in AuthReadOutcomes : StoredPhoneRead(i, outcome)

SpecLogin == InitLogin /\ [][NextLogin]_vars

\* Sending and resending OTPs while the countdown interval ticks.
NextResend ==
    \/ \E i \in 1..Len(tasks), outcome \in AuthReadOutcomes : StoredVerificationIdRead(i, outcome)
    \/ \E i \in 1..Len(tasks), outcome \in AuthReadOutcomes : StoredPhoneRead(i, outcome)
    \/ \E text \in MobileTexts : ChangeMobileNumber(text)
    \/ PressSendOTP
    \/ \E i \in 1..Len(tasks), outcome \in CheckOutcomes : DriverCheckSettled(i, outcome)
    \/ \E i \in 1..Len(tasks), vid \in VerificationIds \cup {"failed"} :
          OtpRequestSettled(i, vid)
    \/ \E i \in 1..Len(tasks), outcome \in StoreOutcomes : VerificationIdSaved(i, outcome)
    \/ \E i \in 1..Len(tasks), outcome \in StoreOutcomes : PhoneNumberSaved(i, outcome)
    \/ Tick

\* The interval of the countdown effect is a timer of the host: while it is
\* set it goes on firing.
SpecResend == InitLogin /\ [][NextResend]_vars /\ WF_vars(Tick)

\* Registration failures considered: none, or the provider rejects them all.
FailSets == {{}, Handlers}

\* initializeNotifications alone, from the constructed singleton.
NextInit ==
    \/ InitializeStart
    \/ \E i \in 1..Len(tasks), status \in AuthStatuses \cup {"failed"} :
          PermissionSettled(i, status)
    \/ \E i \in 1..Len(tasks), outcome \in ChannelOutcomes : ChannelSettled(i, outcome)
    \/ \E i \in 1..Len(tasks), result \in Tokens \cup {"", "failed"}, failed \in FailSets :
          TokenSettled(i, result, failed)
    \/ \E i \in 1..Len(tasks), outcome \in StoreOutcomes, failed \in FailSets :
          TokenPersisted(i, outcome, failed)

SpecInit == Init /\ [][NextInit]_vars

\* The state once initializeNotifications has returned true on android with
\* token tokA: the message handlers are registered.
Ready ==
    /\ listeners = [e \in {} |-> <<>>]
    /\ offLog = {}
    /\ step = [op |-> "initDone", ret |-> TRUE, settled |-> "resolved",
               status |-> "AUTHORIZED", channel |-> "created", token |-> "stored",
               cached |-> NoToken, failed |-> {}]
    /\ emits = <<>>
    /\ displayed = <<>>
    /\ platform = "android"
    /\ screen = InitialScreen
    /\ firebase = NoSessions
    /\ fcmToken = "tokA"
    /\ notificationInitialized = TRUE
    /\ storage = ("fcmToken" :> "tokA")
    /\ fgHandlers = 1
    /\ bgHandler = TRUE
    /\ refreshHandlers = 1
    /\ pressHandlers = 0
    /\ timers = <<>>
    /\ tasks = <<>>

\* The initialized service: the application subscribes and unsubscribes
\* rideRequest listeners while messages, taps and the startup replay arrive.
Next ==
    \/ \E cb \in AppCallbacks :
          /\ TotalListeners(listeners) < MaxAppListeners
          /\ CallOn("rideRequest", cb)
          /\ UNCHANGED offLog
    \/ \E cb \in AppCallbacks :
          /\ OffKind(listeners, "rideRequest", cb) # "none"
          /\ CallOff("rideRequest", cb)
          /\ UNCHANGED offLog
    \/ \E m \in Messages : FgMessage(m)
    \/ \E i \in 1..Len(tasks), outcome \in RenderOutcomes : FgRendered(i, outcome)
    \/ \E m \in Messages : BgMessage(m)
    \/ \E i \in 1..Len(tasks), outcome \in RenderOutcomes : BgRendered(i, outcome)
    \/ \E i \in 1..Len(tasks), outcome \in StoreOutcomes : BgStored(i, outcome)
    \/ TestNotification
    \/ \E i \in 1..Len(tasks), outcome \in RenderOutcomes : TestRendered(i, outcome)
    \/ CheckStart
    \/ \E i \in 1..Len(tasks), result \in InitialResults, registerFails \in BOOLEAN :
          InitialSettled(i, result, registerFails)
    \/ TimerFired
    \/ \E type \in EventTypes, detail \in Details : NotificationEvent(type, detail)

Spec == Ready /\ [][Next]_vars

\* The auth tokens the login screen may have stored.
AuthTokens == {"jwt"}

\* The initialized service (as in Ready), the driver logged in or not.
ReadyRefresh ==
    /\ listeners = [e \in {} |-> <<>>]
    /\ offLog = {}
    /\ step = [op |-> "initDone", ret |-> TRUE, settled |-> "resolved",
               status |-> "AUTHORIZED", channel |-> "created", token |-> "stored",
               cached |-> NoToken, failed |-> {}]
    /\ emits = <<>>
    /\ displayed = <<>>
    /\ platform = "android"
    /\ screen = InitialScreen
    /\ firebase = NoSessions
    /\ fcmToken = "tokA"
    /\ notificationInitialized = TRUE
    /\ storage \in {("fcmToken" :> "tokA")}
                     \cup {("fcmToken" :> "tokA") @@ ("authToken" :> a) : a \in AuthTokens}
    /\ fgHandlers = 1
    /\ bgHandler = TRUE
    /\ refreshHandlers = 1
    /\ pressHandlers = 0
    /\ timers = <<>>
    /\ tasks = <<>>

\* The initialized service while the provider refreshes the token and the
\* application subscribes and unsubscribes tokenRefresh listeners.
NextRefresh ==
    \/ \E cb \in AppCallbacks :
          /\ TotalListeners(listeners) < MaxAppListeners
          /\ CallOn("tokenRefresh", cb)
          /\ UNCHANGED offLog
    \/ \E cb \in AppCallbacks :
          /\ OffKind(listeners, "tokenRefresh", cb) # "none"
          /\ CallOff("tokenRefresh", cb)
          /\ UNCHANGED offLog
    \/ \E newToken \in Tokens : TokenRefresh(newToken)
    \/ \E i \in 1..Len(tasks), outcome \in AuthReadOutcomes : AuthRead(i, outcome)
    \/ \E i \in 1..Len(tasks), outcome \in FetchOutcomes : FetchSettled(i, outcome)

SpecRefresh == ReadyRefresh /\ [][NextRefresh]_vars

\* The messages and event details delivered while the entry points are
\* exercised together: a ride request and a message of another type.
EntryMessages == {m \in Messages : m.notification # NoNotification /\ m.data # NoData
                                    /\ "type" \in DOMAIN m.data}

EntryDetails == {NoNotification} \cup {[data |-> m.data] : m \in EntryMessages}

EntryInitialResults ==
    {[kind |-> "none"], [kind |-> "failed"]}
       \cup {[kind |-> "notification", data |-> m.data] : m \in EntryMessages}

\* Every entry point the platform or the application calls, from the
\* constructed singleton on, with listeners that throw subscribed to both
\* events and every collaborator free to fail.
NextEntry ==
    \/ \E event \in Events :
          /\ TotalListeners(listeners) < MaxAppListeners
          /\ ~Has(listeners, event)
          /\ CallOn(event, "cbThrow")
          /\ UNCHANGED offLog
    \/ InitializeStart
    \/ \E i \in 1..Len(tasks), status \in AuthStatuses \cup {"failed"} :
          PermissionSettled(i, status)
    \/ \E i \in 1..Len(tasks), outcome \in ChannelOutcomes : ChannelSettled(i, outcome)
    \/ \E i \in 1..Len(tasks), result \in {"tokA", "", "failed"}, failed \in FailSets :
          TokenSettled(i, result, failed)
    \/ \E i \in 1..Len(tasks), outcome \in StoreOutcomes, failed \in FailSets :
          TokenPersisted(i, outcome, failed)
    \/ \E m \in EntryMessages : FgMessage(m)
    \/ \E i \in 1..Len(tasks), outcome \in RenderOutcomes : FgRendered(i, outcome)
    \/ \E newToken \in Tokens : TokenRefresh(newToken)
    \/ \E i \in 1..Len(tasks), outcome \in AuthReadOutcomes : AuthRead(i, outcome)
    \/ \E i \in 1..Len(tasks), outcome \in FetchOutcomes : FetchSettled(i, outcome)
    \/ CheckStart
    \/ \E i \in 1..Len(tasks), result \in EntryInitialResults, registerFails \in BOOLEAN :
          InitialSettled(i, result, registerFails)
    \/ TimerFired
    \/ \E type \in EventTypes, detail \in EntryDetails : NotificationEvent(type, detail)

\* The constructed singleton on android, the driver logged in or not.
InitEntry ==
    /\ listeners = [e \in {} |-> <<>>]
    /\ offLog = {}
    /\ step = [op |-> "new"]
    /\ emits = <<>>
    /\ displayed = <<>>
    /\ platform = "android"
    /\ screen = InitialScreen
    /\ firebase = NoSessions
    /\ fcmToken = NoToken
    /\ notificationInitialized = FALSE
    /\ storage \in {[key \in {} |-> ""]} \cup {("authToken" :> a) : a \in AuthTokens}
    /\ fgHandlers = 0
    /\ bgHandler = FALSE
    /\ refreshHandlers = 0
    /\ pressHandlers = 0
    /\ timers = <<>>
    /\ tasks = <<>>

SpecEntry == InitEntry /\ [][NextEntry]_vars

\* A second ride request, told from the first by its rideId.
SecondRideRequest ==
    [notification |-> NoNotification,
     data |-> [type |-> Str("ride_request"), rideId |-> Num(7)]]

StoreMessages == Messages \cup {SecondRideRequest}

\* The initialized service with no listener subscribed, while every kind of
\* occurrence arrives: foreground and background messages, token refreshes,
\* the startup replay and notification events.
NextStore ==
    \/ \E m \in StoreMessages : FgMessage(m)
    \/ \E i \in 1..Len(tasks), outcome \in RenderOutcomes : FgRendered(i, outcome)
    \/ \E m \in StoreMessages : BgMessage(m)
    \/ \E i \in 1..Len(tasks), outcome \in RenderOutcomes : BgRendered(i, outcome)
    \/ \E i \in 1..Len(tasks), outcome \in StoreOutcomes : BgStored(i, outcome)
    \/ \E newToken \in Tokens : TokenRefresh(newToken)
    \/ \E i \in 1..Len(tasks), outcome \in AuthReadOutcomes : AuthRead(i, outcome)
    \/ \E i \in 1..Len(tasks), outcome \in FetchOutcomes : FetchSettled(i, outcome)
    \/ CheckStart
    \/ \E i \in 1..Len(tasks), result \in InitialResults, registerFails \in BOOLEAN :
          InitialSettled(i, result, registerFails)
    \/ TimerFired
    \/ \E type \in EventTypes, detail \in Details : NotificationEvent(type, detail)

SpecStore == ReadyRefresh /\ [][NextStore]_vars

\* The ride request of Messages that comes with a notification.
RideMessage ==
    [notification |-> [title |-> "Ride", body |-> "Pickup"],
     data |-> [type |-> Str("ride_request"), rideId |-> Num(42)]]

\* Repeated setup: initializeNotifications and checkPendingNotifications are
\* called up to MaxRepeat times each (every collaborator succeeding), one
\* listener subscribes, and a ride request arrives in the foreground or its
\* notification is pressed.
NextRepeat ==
    \/ /\ TotalListeners(listeners) < 1
       /\ CallOn("rideRequest", "cbA")
       /\ UNCHANGED offLog
    \/ /\ fgHandlers + Cardinality({i \in 1..Len(tasks) : tasks[i].kind = "init"}) < MaxRepeat
       /\ Len(tasks) < MaxRepeat
       /\ InitializeCall
    \/ \E i \in 1..Len(tasks) : PermissionSettled(i, "AUTHORIZED")
    \/ \E i \in 1..Len(tasks) : ChannelSettled(i, "created")
    \/ \E i \in 1..Len(tasks) : TokenSettled(i, "tokA", {})
    \/ \E i \in 1..Len(tasks) : TokenPersisted(i, "stored", {})
    \/ /\ pressHandlers + Cardinality({i \in 1..Len(tasks) : tasks[i].kind = "check"}) < MaxRepeat
       /\ Len(tasks) < MaxRepeat
       /\ CheckCall
    \/ \E i \in 1..Len(tasks) : InitialSettled(i, [kind |-> "none"], FALSE)
    \/ /\ Len(tasks) + fgHandlers <= MaxRepeat
       /\ FgDeliver(RideMessage)
    \/ \E i \in 1..Len(tasks) : FgRendered(i, "displayed")
    \/ NotificationEvent("press", [data |-> RideMessage.data])

SpecRepeat == InitEmitter /\ [][NextRepeat]_vars

\* Two foreground ride requests whose handlers may overlap: the provider calls
\* the onMessage callback for each message as it arrives, and each call runs
\* until its own render request settles.
OverlapMessages == {RideMessage, SecondRideRequest}

NextOverlap ==
    \/ \E cb \in {"cbA", "cbB"} :
          /\ TotalListeners(listeners) < MaxAppListeners
          /\ CallOn("rideRequest", cb)
          /\ UNCHANGED offLog
    \/ \E m \in OverlapMessages :
          /\ Len(tasks) < MaxRepeat
          /\ FgDeliver(m)
    \/ \E i \in 1..Len(tasks), outcome \in RenderOutcomes : FgRendered(i, outcome)

SpecOverlap == Ready /\ [][NextOverlap]_vars

\* ------------------------------------------------ claims on the emitter
\* The listener sequence of an event; empty when the event has none.
RegisteredFor(reg, event) == IF Has(reg, event) THEN reg[event] ELSE <<>>

\* No callback of the sequence calls on/off while it is being dispatched.
NoReentrantOff(seq) == \A i \in 1..Len(seq) : Behaviour(seq[i]) # "unsubscribes"

\* C3: when no on/off call runs during the dispatch, emit(event, data) invokes
\* the callbacks registered for the event when it started, one invocation per
\* registered instance (duplicates included), in registration order, each with
\* the emitted data, all within the emit step, and leaves the registry as it was.
C3_EmitInvokesEveryInstanceInOrder ==
    [][ (step'.op = "emit" /\ NoReentrantOff(RegisteredFor(listeners, step'.event))) =>
          /\ Len(emits') = 1
          /\ emits'[1].event = step'.event
          /\ Len(emits'[1].calls) = Len(RegisteredFor(listeners, step'.event))
          /\ \A i \in 1..Len(emits'[1].calls) :
                /\ emits'[1].calls[i].cb = listeners[step'.event][i]
                /\ emits'[1].calls[i].data = step'.data
          /\ listeners' = listeners ]_vars

\* C3 witness: an emit has just invoked the same callback twice in a row.
C3_Witness ==
    /\ step.op = "emit"
    /\ Len(emits) = 1
    /\ Len(emits[1].calls) >= 2
    /\ emits[1].calls[1].cb = "cbA"
    /\ emits[1].calls[2].cb = "cbA"

\* C4: an emit never propagates a listener's exception, and (no listener having
\* unsubscribed during the dispatch) every listener registered after one that
\* threw is still invoked, with the same data.
C4_ListenerIsolation ==
    \A e \in 1..Len(emits) :
        /\ ~emits[e].raised
        /\ (\A i \in 1..Len(emits[e].calls) : emits[e].calls[i].off = "no") =>
             \A i \in 1..Len(emits[e].calls) :
                emits[e].calls[i].outcome = "threw" =>
                   \A q \in (i + 1)..Len(RegisteredFor(listeners, emits[e].event)) :
                      /\ q <= Len(emits[e].calls)
                      /\ emits[e].calls[q].cb = listeners[emits[e].event][q]
                      /\ emits[e].calls[q].data = emits[e].calls[i].data

\* C4 witness: the first listener threw and the second was invoked after it.
C4_Witness ==
    /\ Len(emits) = 1
    /\ Len(emits[1].calls) >= 2
    /\ emits[1].calls[1].outcome = "threw"
    /\ emits[1].calls[2].outcome = "returned"
    /\ ~emits[1].raised

\* C5 as stated: once off(event, cb) has been called (and cb not registered
\* again), a later emit(event, x) does not invoke cb.
C5_Original_OffThenNeverInvoked ==
    [][ step'.op = "emit" =>
          \A i \in 1..Len(emits'[1].calls) : \A dup \in BOOLEAN :
              <<step'.event, emits'[1].calls[i].cb, dup>> \notin offLog ]_vars

\* C5 amended: once off(event, cb) has been called while cb was registered at
\* most once for the event (and cb not registered again), a later
\* emit(event, x) does not invoke cb.
C5_OffOfSoleInstanceThenNeverInvoked ==
    [][ step'.op = "emit" =>
          \A i \in 1..Len(emits'[1].calls) :
              <<step'.event, emits'[1].calls[i].cb, FALSE>> \notin offLog ]_vars

\* C5 witness: an emit ran for an event from which cbA had been removed, and
\* it invoked some other listener.
C5_Witness ==
    /\ step.op = "emit"
    /\ <<step.event, "cbA", FALSE>> \in offLog
    /\ Len(emits[1].calls) >= 1

\* C6: off(event, cb) removes exactly the earliest instance of cb from the
\* event's sequence and keeps every other entry in order; when cb is not
\* registered for the event (or the event has no sequence) nothing changes.
C6_OffRemovesFirstInstance ==
    [][ step'.op = "off" =>
          LET old == RegisteredFor(listeners, step'.event)
              hits == {i \in 1..Len(old) : old[i] = step'.cb}
          IN /\ DOMAIN listeners' = DOMAIN listeners
             /\ \A e \in DOMAIN listeners : e # step'.event => listeners'[e] = listeners[e]
             /\ hits = {} => listeners' = listeners
             /\ hits # {} =>
                  \E i \in hits :
                     /\ \A j \in hits : i <= j
                     /\ Len(listeners'[step'.event]) = Len(old) - 1
                     /\ \A j \in 1..(Len(old) - 1) :
                           listeners'[step'.event][j] = IF j < i THEN old[j] ELSE old[j + 1]
      ]_vars

\* C6 witness: off removed the first of two cbA instances that had another
\* callback between them.
C6_Witness ==
    /\ step.op = "off"
    /\ step.cb = "cbA"
    /\ step.kind = "dup"
    /\ listeners[step.event] = <<"cbThrow", "cbA">>

\* ------------------------------------------ claims on initialization
\* C7: initializeNotifications never throws, returns true only when the
\* provider granted permission (AUTHORIZED or PROVISIONAL), and returns false
\* when permission is denied or the permission request itself fails.
C7_InitializeTrueOnlyIfGranted ==
    step.op = "initDone" =>
        /\ step.settled = "resolved"
        /\ step.ret = TRUE => step.status \in {"AUTHORIZED", "PROVISIONAL"}
        /\ step.status \in {"DENIED", "failed"} => step.ret = FALSE

\* C7 witness: the provider reported DENIED and initialize returned false.
C7_Witness ==
    /\ step.op = "initDone"
    /\ step.status = "DENIED"
    /\ step.ret = FALSE
    /\ step.settled = "resolved"

\* C8: with permission granted, initialize returns true and has set up the
\* foreground, background and token-refresh handlers whatever the outcome of
\* channel creation and of token retrieval (each registration taking effect
\* unless the provider rejects the registration call itself).
C8_InitializeSurvivesChannelAndTokenFailure ==
    (step.op = "initDone" /\ step.status \in {"AUTHORIZED", "PROVISIONAL"}) =>
        /\ step.ret = TRUE
        /\ notificationInitialized
        /\ step.failed = {} => (fgHandlers >= 1 /\ bgHandler /\ refreshHandlers >= 1)

\* C8 witness: channel creation and token retrieval both failed, and
\* initialize still registered the three handlers and returned true.
C8_Witness ==
    /\ step.op = "initDone"
    /\ step.channel = "failed"
    /\ step.token = "failed"
    /\ step.ret = TRUE
    /\ fgHandlers = 1 /\ bgHandler /\ refreshHandlers = 1

\* ------------------------------------------ claims on the message paths
\* C1: a foreground handler that finishes a ride_request message has emitted
\* one rideRequest event whose payload is the message's raw data mapping, and
\* (no listener unsubscribing during the dispatch) every registered
\* rideRequest listener was invoked with it, whether the render succeeded or
\* failed.
C1_ForegroundRideRequestEmitsRawData ==
    (step.op = "fgDone" /\ IsRideRequest(step.msg.data)) =>
        /\ Len(emits) = 1
        /\ emits[1].event = "rideRequest"
        /\ emits[1].data = step.msg.data
        /\ (\A i \in 1..Len(emits[1].calls) : emits[1].calls[i].off = "no") =>
              /\ Len(emits[1].calls) = Len(RegisteredFor(listeners, "rideRequest"))
              /\ \A i \in 1..Len(emits[1].calls) :
                    /\ emits[1].calls[i].cb = listeners["rideRequest"][i]
                    /\ emits[1].calls[i].data = step.msg.data

\* C1 witness: the render failed, and two listeners still received the raw
\* data, whose rideId is a number.
C1_Witness ==
    /\ step.op = "fgDone"
    /\ step.render = "failed"
    /\ IsRideRequest(step.msg.data)
    /\ Len(emits) = 1
    /\ Len(emits[1].calls) = 2
    /\ emits[1].calls[2].data["rideId"] = Num(42)

\* C2: a rideRequest event is emitted only by a foreground message, a
\* notification event or the startup-replay timer whose data.type is
\* "ride_request"; no other step (a background message among them) and no
\* occurrence without data or without that type emits one.
C2_NoRideRequestEventForOtherTypes ==
    \A e \in 1..Len(emits) :
        emits[e].event = "rideRequest" =>
            /\ step.op \in {"fgDone", "notificationEvent", "timer"}
            /\ IsRideRequest(step.data)
            /\ emits[e].data = step.data

\* C2 witness: a foreground message of type "chat" was handled while a
\* rideRequest listener was registered, and nothing was emitted.
C2_Witness ==
    /\ step.op = "fgDone"
    /\ step.data # NoData
    /\ "type" \in DOMAIN step.data
    /\ step.data["type"] = Str("chat")
    /\ Len(RegisteredFor(listeners, "rideRequest")) >= 1
    /\ emits = <<>>

\* The data mapping given to showLocalNotification by the last step.
DisplayInput ==
    IF step.op = "testNotification" THEN TestNotificationArg.data ELSE step.msg.data

\* The string form JavaScript gives a data value.
IsStringFormOf(out, v) ==
    /\ out.k = "string"
    /\ v.k = "string" => out.s = v.s
    /\ v.k = "boolean" => (out.s \in {"true", "false"} /\ (out.s = "true") = v.b)
    /\ v.k = "number" => <<v.n, out.s>> \in {<<7, "7">>, <<42, "42">>}
    /\ v.k = "object" => out.s = "[object Object]"

\* C9: every request handed to the renderer carries a data mapping with the
\* key set of the input data and, for each key, the string form of the input
\* value; an input without data is rendered with an empty mapping.
C9_RenderedDataIsStringCoerced ==
    \A r \in 1..Len(displayed) :
        IF DisplayInput = NoData
        THEN DOMAIN displayed[r].data = {}
        ELSE /\ DOMAIN displayed[r].data = DOMAIN DisplayInput
             /\ \A key \in DOMAIN DisplayInput :
                   IsStringFormOf(displayed[r].data[key], DisplayInput[key])

\* C9 witness: a foreground message whose rideId is the number 42 was
\* rendered with rideId "42".
C9_Witness ==
    /\ step.op = "fgMessage"
    /\ step.msg.data # NoData
    /\ "rideId" \in DOMAIN step.msg.data
    /\ step.msg.data["rideId"] = Num(42)
    /\ Len(displayed) = 1
    /\ displayed[1].data["rideId"] = Str("42")

\* C10: a failed render never propagates: testNotification settles normally,
\* a foreground handler settles normally after emitting for a ride request,
\* and a background handler ends normally only when the message is no ride
\* request (for a ride request it goes on to store it).
C10_RenderFailureIsSwallowed ==
    /\ (step.op = "testDone" /\ step.render = "failed") => step.settled = "resolved"
    /\ (step.op = "fgDone" /\ step.render = "failed") =>
          /\ step.settled = "resolved"
          /\ IsRideRequest(step.data) => Len(emits) = 1
    /\ (step.op = "bgDone" /\ step.render = "failed") =>
          /\ step.settled = "resolved"
          /\ ~IsRideRequest(step.data)

\* C10 witness: the render of a background ride request failed and the
\* handler went on to its storage write.
C10_Witness ==
    /\ step.op = "bgRendered"
    /\ step.render = "failed"
    /\ \E i \in 1..Len(tasks) : tasks[i].kind = "bg" /\ tasks[i].pc = "store"

\* ------------------------------------------ claims on the background path
\* The JSON text of the ride-request data mappings, written out.
ExpectedJSON(data) ==
    CASE data = [type |-> Str("ride_request"), rideId |-> Num(42)] ->
            "{\"type\":\"ride_request\",\"rideId\":42}"
      [] data = [type |-> Str("ride_request"), rideId |-> Num(7)] ->
            "{\"type\":\"ride_request\",\"rideId\":7}"
      [] OTHER -> "?"

\* The message carries no title, neither in its notification nor in its data.
SuppliesNoTitle(m) ==
    /\ m.notification = NoNotification \/ m.notification.title = ""
    /\ m.data = NoData \/ "title" \notin DOMAIN m.data

\* C11: when the background handler has settled normally for a ride_request
\* message, the storage key pendingRideRequest holds the JSON text of the
\* message's raw data; and the notification the handler requests for a message
\* that supplies no title carries the default title.
C11_BackgroundRideRequestStoredAndShown ==
    /\ (step.op = "bgDone" /\ IsRideRequest(step.data) /\ step.settled = "resolved") =>
          /\ "pendingRideRequest" \in DOMAIN storage
          /\ storage["pendingRideRequest"] = ExpectedJSON(step.data)
    /\ (step.op = "bgMessage" /\ SuppliesNoTitle(step.msg)) =>
          /\ Len(displayed) = 1
          /\ displayed[1].title = Str(DefaultTitle)

\* C11 witness: the data-only ride request {type, rideId: 42} was handled in
\* the background and its JSON text is stored.
C11_Witness ==
    /\ step.op = "bgDone"
    /\ step.msg.notification = NoNotification
    /\ IsRideRequest(step.data)
    /\ step.settled = "resolved"
    /\ storage["pendingRideRequest"] = "{\"type\":\"ride_request\",\"rideId\":42}"

\* C12: the background message handler always settles normally, whatever the
\* message and whatever the renderer and the storage do.
C12_BackgroundHandlerNeverRejects ==
    step.op = "bgDone" => step.settled = "resolved"

\* ------------------------------------------ claims on the token refresh
\* C13: once the token-refresh callback has run with newToken, the cached
\* token and the value stored under fcmToken both equal newToken.
C13_RefreshReplacesToken ==
    step.op = "refreshDone" =>
        /\ fcmToken = step.token
        /\ "fcmToken" \in DOMAIN storage
        /\ storage["fcmToken"] = step.token

\* How a run of the token-refresh callback can end.
RemoteOutcomes == {"ok", "status500", "threw", "skip:readFailed", "skip:noAuth"}

\* C14: every run of the token-refresh callback ends having emitted exactly
\* one tokenRefresh event whose payload is the new token, whatever the remote
\* update did: 2xx, another status, fetch throwing, the auth-token read
\* failing, or no auth token stored.
C14_RefreshEmitsOnce ==
    /\ step.op = "refreshDone" =>
          /\ step.remote \in RemoteOutcomes
          /\ Len(emits) = 1
          /\ emits[1].event = "tokenRefresh"
          /\ emits[1].data = Str(step.token)
    /\ step.op \in {"tokenRefresh", "authRead"} => emits = <<>>

\* C14 witness: fetch threw, and a tokenRefresh listener was still called
\* with the new token.
C14_Witness ==
    /\ step.op = "refreshDone"
    /\ step.remote = "threw"
    /\ Len(emits) = 1
    /\ Len(emits[1].calls) >= 1
    /\ emits[1].calls[1].data = Str("tokB")

\* ------------------------------------------ claims on the replay paths
\* C15: checkPendingNotifications, launched by a ride_request notification,
\* emits nothing itself and arms one timer of 3000 ms carrying the
\* notification's data (no timer for anything else); the timer's callback
\* emits exactly one rideRequest with that data and invokes the listeners
\* registered when it fires, those attached during the delay included.
C15_StartupReplayAfterDelay ==
    [][ /\ step'.op = "checkDone" =>
             /\ emits' = <<>>
             /\ IF step'.initial.kind = "notification" /\ IsRideRequest(step'.initial.data)
                THEN /\ Len(timers') = Len(timers) + 1
                     /\ timers'[Len(timers')].data = step'.initial.data
                     /\ timers'[Len(timers')].delay = 3000
                ELSE timers' = timers
        /\ step'.op = "timer" =>
             /\ Len(timers') = Len(timers) - 1
             /\ IsRideRequest(step'.data)
             /\ Len(emits') = 1
             /\ emits'[1].event = "rideRequest"
             /\ emits'[1].data = step'.data
             /\ Len(emits'[1].calls) = Len(RegisteredFor(listeners, "rideRequest"))
             /\ \A i \in 1..Len(emits'[1].calls) :
                   /\ emits'[1].calls[i].cb = listeners["rideRequest"][i]
                   /\ emits'[1].calls[i].data = step'.data ]_vars

\* C15 witness: the replay timer fired and invoked a listener that was
\* attached after the timer had been armed.
C15_Witness ==
    /\ step.op = "timer"
    /\ step.armed = 0
    /\ Len(emits) = 1
    /\ Len(emits[1].calls) = 1
    /\ emits[1].calls[1].data = [type |-> Str("ride_request"), rideId |-> Num(42)]

EntryPointEnds == {"initDone", "fgDone", "refreshDone", "checkDone", "timer",
                   "notificationEvent"}

\* C17: initializeNotifications, the foreground message handler, the
\* token-refresh handler, checkPendingNotifications, the replay timer callback
\* and the press callback never end by throwing or rejecting, whichever of the
\* provider, the renderer, the storage, the HTTP call and the listeners fail.
C17_NothingThrowsPastEntryPoint ==
    step.op \in EntryPointEnds => step.settled = "resolved"

\* C17 witness: a token refresh ended normally although fetch threw and the
\* tokenRefresh listener threw as well.
C17_Witness ==
    /\ step.op = "refreshDone"
    /\ step.remote = "threw"
    /\ step.settled = "resolved"
    /\ Len(emits) = 1
    /\ Len(emits[1].calls) >= 1
    /\ emits[1].calls[1].outcome = "threw"

\* ------------------------------------------ claims on rendering
\* C18: every request given to the renderer, by the foreground handler, the
\* background handler or the test notification, carries the channel id
\* high_priority_channel, high importance and a data mapping whose values are
\* all strings; no other operation issues a request.
C18_EveryRenderRequestIsUniform ==
    /\ \A r \in 1..Len(displayed) :
          /\ displayed[r].channelId = "high_priority_channel"
          /\ displayed[r].importance = "HIGH"
          /\ \A key \in DOMAIN displayed[r].data : displayed[r].data[key].k = "string"
    /\ displayed # <<>> => step.op \in {"fgMessage", "bgMessage", "testNotification"}
    /\ step.op \in {"fgMessage", "bgMessage", "testNotification"} => displayed # <<>>

\* C18 witness: the background handler requested a render for data holding a
\* boolean and a nested object, and the request carries their string forms.
C18_Witness ==
    /\ step.op = "bgMessage"
    /\ Len(displayed) = 1
    /\ DOMAIN displayed[1].data = {"type", "rideId", "extra"}
    /\ displayed[1].data["rideId"] = Str("true")
    /\ displayed[1].data["extra"] = Str("[object Object]")
    /\ displayed[1].channelId = "high_priority_channel"

\* C19: the request the background handler gives the renderer has the title,
\* body and data of the request the foreground handler builds for the same
\* message.
C19_BackgroundRendersAsForeground ==
    step.op = "bgMessage" =>
        \A r \in 1..Len(displayed) :
            /\ displayed[r].title = DisplayRequest(FgNotification(step.msg)).title
            /\ displayed[r].body = DisplayRequest(FgNotification(step.msg)).body
            /\ displayed[r].data = DisplayRequest(FgNotification(step.msg)).data

\* C20: when the background handler settles, its render request is over
\* (displayed or failed) and, for a ride_request message, so is its write of
\* pendingRideRequest (stored or failed), which is attempted whether the
\* render succeeded or failed; for any other message nothing is written.
C20_BackgroundEffectsOverWhenSettled ==
    step.op = "bgDone" =>
        /\ step.display \in RenderOutcomes
        /\ IF IsRideRequest(step.data) THEN step.store \in StoreOutcomes
                                        ELSE step.store = "none"
        /\ \A i \in 1..Len(tasks) :
               (tasks[i].kind = "bg" /\ tasks[i].pc = "store") => IsRideRequest(tasks[i].msg.data)

\* C20 witness: the render of a background ride request failed, the write was
\* made all the same, and the handler settled after it.
C20_Witness ==
    /\ step.op = "bgDone"
    /\ IsRideRequest(step.data)
    /\ step.display = "failed"
    /\ step.store = "stored"
    /\ "pendingRideRequest" \in DOMAIN storage

\* ------------------------------------------ claims on the remote update
\* C21: the refresh callback never waits for the remote update: it is never
\* suspended on the HTTP request with its tokenRefresh event still to emit.
C21_RemoteSyncNeverAwaited ==
    \A i \in 1..Len(tasks) : ~(tasks[i].kind = "refresh" /\ tasks[i].pc = "fetch")

\* C22: a run of the refresh callback posts to the update-fcm-token endpoint
\* at most once, only with an auth token found in storage, with the new token
\* in the body, and never posts again whatever the outcome.
C22_AtMostOnePostPerRefresh ==
    /\ \A i \in 1..Len(tasks) : tasks[i].kind = "refresh" => tasks[i].posts <= 1
    /\ step.op # "retry"
    /\ step.op = "authRead" =>
          /\ "authToken" \in DOMAIN storage
          /\ step.request.method = "POST"
          /\ step.request.url = "https://backendddd-2xa6.onrender.com/drivers/update-fcm-token"
          /\ step.request.authorization = "Bearer jwt"
          /\ step.request.body.fcmToken = step.token
    /\ step.op = "refreshDone" =>
          /\ step.posts \in {0, 1}
          /\ step.posts = 1 <=> step.remote \in {"ok", "status500", "threw"}
          /\ step.posts = 1 => "authToken" \in DOMAIN storage

\* C22 witness: the one request of a refresh threw, and the callback ended
\* without another.
C22_Witness ==
    /\ step.op = "refreshDone"
    /\ step.remote = "threw"
    /\ step.posts = 1
    /\ step.token = "tokB"

\* ------------------------------------------ claims on the order of initialize
Granted == {"AUTHORIZED", "PROVISIONAL"}

ChannelOver == {"created", "failed", "skipped"}

\* Where a running initializeNotifications stands agrees with what it has
\* done: each step starts only when the one before has settled.
InitInOrder(task) ==
    /\ task.pc = "permission" =>
          (task.status = "pending" /\ task.channel = "pending" /\ task.token = "pending")
    /\ task.pc = "channel" =>
          (task.status \in Granted /\ task.channel = "pending" /\ task.token = "pending")
    /\ task.pc = "token" =>
          (task.status \in Granted /\ task.channel \in ChannelOver /\ task.token = "pending")
    /\ task.pc = "persist" =>
          (task.status \in Granted /\ task.channel \in ChannelOver /\ task.token \in Tokens)

\* C23: in initializeNotifications the permission request settles before
\* channel creation starts, channel creation settles (or is skipped off
\* android) before the token fetch starts, and the token fetch with its
\* persisting settles before a foreground, background or token-refresh handler
\* is registered: registrations happen only in the step that returns true.
C23_InitializeStepsInOrder ==
    [][ /\ \A i \in 1..Len(tasks') : tasks'[i].kind = "init" => InitInOrder(tasks'[i])
        /\ (fgHandlers' # fgHandlers \/ bgHandler' # bgHandler
               \/ refreshHandlers' # refreshHandlers) =>
              /\ step'.op = "initDone"
              /\ step'.ret = TRUE
              /\ step'.status \in Granted
              /\ step'.channel \in ChannelOver
              /\ step'.token \in {"stored", "unsaved", "none", "failed"}
              /\ Len(tasks') = Len(tasks) - 1 ]_vars

\* C23 witness: initialize has run through permission, channel and a persisted
\* token, and registered the handlers in its last step.
C23_Witness ==
    /\ step.op = "initDone"
    /\ step.status = "AUTHORIZED"
    /\ step.channel = "created"
    /\ step.token = "stored"
    /\ "fcmToken" \in DOMAIN storage
    /\ fgHandlers = 1 /\ bgHandler /\ refreshHandlers = 1

\* C24: when initializeNotifications returns false, permission was not
\* granted (or its request failed) and the call had no effect: it never
\* started channel creation or the token fetch, and the step that returns
\* leaves the cached and stored token, the handler registrations, the
\* initialized flag and the listener registry as they were.
C24_DenialHaltsWithoutEffect ==
    [][ (step'.op = "initDone" /\ step'.ret = FALSE) =>
          /\ step'.status \notin Granted
          /\ step'.channel = "pending"
          /\ step'.token = "pending"
          /\ fcmToken' = fcmToken
          /\ storage' = storage
          /\ fgHandlers' = fgHandlers
          /\ bgHandler' = bgHandler
          /\ refreshHandlers' = refreshHandlers
          /\ notificationInitialized' = notificationInitialized
          /\ listeners' = listeners ]_vars

\* C24 witness: permission was denied, initialize returned false, and nothing
\* is registered, cached or stored.
C24_Witness ==
    /\ step.op = "initDone"
    /\ step.ret = FALSE
    /\ step.status = "DENIED"
    /\ fgHandlers = 0 /\ ~bgHandler /\ refreshHandlers = 0
    /\ ~notificationInitialized
    /\ fcmToken = NoToken
    /\ DOMAIN storage = {}

\* ------------------------------------------ claims on the foreground path
\* The texts a foreground message is to be shown with.
ExpectedTitle(m) ==
    IF m.notification = NoNotification \/ m.notification.title = ""
    THEN "New Ride Request" ELSE m.notification.title

ExpectedBody(m) ==
    IF m.notification = NoNotification \/ m.notification.body = ""
    THEN "Tap to view ride details" ELSE m.notification.body

\* C25: on every foreground message, whatever its type, each registered
\* handler requests a render whose title and body are the notification's when
\* it has them and the default texts otherwise, and emits nothing yet; the
\* handler ends (emitting, for a ride request) only in the step in which its
\* render request settles.
C25_RenderSettlesBeforeEmit ==
    [][ /\ step'.op = "fgMessage" =>
             /\ emits' = <<>>
             /\ Len(displayed') = fgHandlers
             /\ Len(displayed') >= 1
             /\ \A r \in 1..Len(displayed') :
                   /\ displayed'[r].title = Str(ExpectedTitle(step'.msg))
                   /\ displayed'[r].body = Str(ExpectedBody(step'.msg))
        /\ step'.op = "fgDone" =>
             /\ step'.render \in RenderOutcomes
             /\ \E i \in 1..Len(tasks) :
                   /\ tasks[i].kind = "fg" /\ tasks[i].pc = "render"
                   /\ tasks[i].msg = step'.msg
                   /\ tasks' = Without(tasks, i)
             /\ \A e \in 1..Len(emits') : emits'[e].data = step'.msg.data ]_vars

\* C25 witness: a data-only ride request was rendered with the default texts
\* and, its render settled, delivered to a listener.
C25_Witness ==
    /\ step.op = "fgDone"
    /\ step.msg.notification = NoNotification
    /\ IsRideRequest(step.msg.data)
    /\ step.render = "displayed"
    /\ Len(emits) = 1
    /\ Len(emits[1].calls) >= 1

\* ------------------------------------------ claims on the stored request
\* The value under pendingRideRequest, "" when the key is not set.
Pending(store) ==
    IF "pendingRideRequest" \in DOMAIN store THEN store["pendingRideRequest"] ELSE ""

\* C26: the key pendingRideRequest changes only when the background handler
\* stores a ride_request message, and then takes the JSON text of that
\* message's data, whatever it held before; it is never removed; foreground
\* messages, other background messages, notification events, token refreshes
\* and the startup replay leave it as it is.
C26_PendingWrittenOnlyByBackground ==
    [][ /\ Pending(storage') # Pending(storage) =>
             /\ step'.op = "bgDone"
             /\ IsRideRequest(step'.data)
             /\ step'.store = "stored"
        /\ "pendingRideRequest" \in DOMAIN storage => "pendingRideRequest" \in DOMAIN storage'
        /\ (step'.op = "bgDone" /\ IsRideRequest(step'.data) /\ step'.store = "stored") =>
             Pending(storage') = ExpectedJSON(step'.data) ]_vars

\* C26 witness: the ride request with rideId 7 was stored over the one with
\* rideId 42 that had been stored before.
C26_Witness ==
    /\ step.op = "bgDone"
    /\ step.store = "stored"
    /\ step.previous = "{\"type\":\"ride_request\",\"rideId\":42}"
    /\ Pending(storage) = "{\"type\":\"ride_request\",\"rideId\":7}"

\* ------------------------------------------ claims on event independence
OtherEvents(event) == {"rideRequest", "tokenRefresh"} \ {event}

\* C27: on(e, cb) and off(e, cb) leave the listener sequence of every other
\* event as it was, and emit(e, x) invokes only callbacks registered for e and
\* leaves the sequences of the other events as they were.
C27_EventsAreIndependent ==
    [][ /\ step'.op \in {"on", "off", "emit"} =>
             \A e \in OtherEvents(step'.event) :
                /\ Has(listeners', e) <=> Has(listeners, e)
                /\ RegisteredFor(listeners', e) = RegisteredFor(listeners, e)
        /\ step'.op = "emit" =>
             \A i \in 1..Len(emits'[1].calls) :
                Count(RegisteredFor(listeners, step'.event), emits'[1].calls[i].cb) >= 1
      ]_vars

\* C27 witness: a rideRequest emit invoked its one listener while another
\* callback, registered for tokenRefresh only, was left alone.
C27_Witness ==
    /\ step.op = "emit"
    /\ step.event = "rideRequest"
    /\ RegisteredFor(listeners, "rideRequest") = <<"cbA">>
    /\ RegisteredFor(listeners, "tokenRefresh") = <<"cbThrow">>
    /\ Len(emits[1].calls) = 1
    /\ emits[1].calls[1].cb = "cbA"

\* ------------------------------------------ claims on dispatch
\* The callbacks invoked by a dispatch, in order.
Invoked(calls) == [i \in 1..Len(calls) |-> calls[i].cb]

\* C28: when a listener unsubscribes itself while emit is dispatching, every
\* other listener registered when the emit started is still invoked exactly
\* once (per registered instance) in that emit.
C28_UnsubscribeDuringDispatchIsSafe ==
    [][ step'.op = "emit" =>
          \A cb \in {"cbA", "cbThrow"} :
              Count(Invoked(emits'[1].calls), cb)
                 = Count(RegisteredFor(listeners, step'.event), cb) ]_vars

\* ------------------------------------------ claims on repeated setup
\* C29: however often initializeNotifications and checkPendingNotifications
\* have been called, one foreground message produces at most one render
\* request, and one notification press at most one rideRequest emission (one
\* invocation per registered listener instance).
C29_AtMostOncePerOccurrence ==
    /\ step.op = "fgMessage" => Len(displayed) <= 1
    /\ step.op = "notificationEvent" => Len(emits) <= 1

\* C30 as stated: a foreground ride request reaches the rideRequest listeners
\* only after every ride request that was delivered before it and carries other
\* data, whatever the order in which the render requests complete.
C30_Original_ArrivalOrder ==
    [][(step'.op = "fgDone" /\ Len(emits') = 1 /\ Len(emits'[1].calls) >= 1)
          => \A j \in 1..(step'.position - 1) :
                ~(/\ At(j, "fg", "render")
                  /\ IsRideRequest(tasks[j].msg.data)
                  /\ tasks[j].msg.data # step'.data)]_vars

\* C30, amended: ride requests reach the listeners in the order in which their
\* render requests settle.  Delivery emits nothing; the handler whose render
\* request settles is the one that ends, and when its message is a ride request
\* every rideRequest listener is invoked once, with that message's data, while
\* every other handler stays pending.
C30_EmittedInRenderCompletionOrder ==
    [][/\ step'.op = "fgMessage" => emits' = <<>> /\ Len(tasks') = Len(tasks) + 1
       /\ step'.op = "fgDone" =>
             /\ At(step'.position, "fg", "render")
             /\ tasks[step'.position].msg = step'.msg
             /\ tasks' = Without(tasks, step'.position)
             /\ IsRideRequest(step'.data) =>
                   /\ Len(emits') = 1
                   /\ emits'[1].event = "rideRequest"
                   /\ emits'[1].data = step'.data
                   /\ Len(emits'[1].calls) = Len(RegisteredFor(listeners, "rideRequest"))
             /\ ~IsRideRequest(step'.data) => emits' = <<>>]_vars

\* A ride request delivered later reaches a listener while an earlier one with
\* other data is still waiting for its render request.
C30_Witness ==
    /\ step.op = "fgDone"
    /\ step.position >= 2
    /\ Len(emits) = 1
    /\ Len(emits[1].calls) >= 1
    /\ Len(tasks) >= 1
    /\ At(1, "fg", "render")
    /\ IsRideRequest(tasks[1].msg.data)
    /\ tasks[1].msg.data # step.data

\* C31: when getFCMToken has returned null the in-memory token is the one from
\* before the call and the persisted fcmToken is untouched; when it has
\* returned a token, the in-memory token and the persisted one are that token.
C31_TokenFetchAllOrNothing ==
    step.op = "initDone" /\ step.token # "pending" =>
        IF step.token = "stored"
        THEN /\ fcmToken \in Tokens
             /\ getItem(storage, "fcmToken") = [found |-> TRUE, value |-> fcmToken]
        ELSE fcmToken = step.cached

\* C32: whenever verifyOTP has completed a login, the number it fetched the
\* driver record for and stored as phoneNumber is the number the OTP of the
\* verified verificationId was sent to.
C32_LoginBoundToOtpNumber ==
    (step.op = "verifyDone" /\ step.result \in {"backend", "fallback"}) =>
        /\ step.mobileNumber = firebase[step.verificationId]
        /\ storage["phoneNumber"] = firebase[step.verificationId]

\* C33: whenever the login screen has navigated to Screen1, the stored
\* authToken is the one the backend issued in a successful get-driver-info
\* response for the logged-in phone number (and, when verifyOTP itself
\* navigated, Firebase had accepted the credential in that call).
C33_NavigationOnlyAfterBackendLogin ==
    (step.op = "continue" \/ (step.op = "verifyDone" /\ step.result = "backend")) =>
        /\ screen.route = "Screen1"
        /\ step.op = "verifyDone" => step.uid # ""
        /\ "phoneNumber" \in DOMAIN storage
        /\ getItem(storage, "authToken")
              = [found |-> TRUE, value |-> DriverInfoResponse(storage["phoneNumber"]).token]

\* The steps of sendOTP.
SendOps == {"sendOTP", "driverCheck", "otpRequested", "verificationIdSaved", "sendDone"}

\* A guard of sendOTP has failed in the step described by s: the number is
\* empty or off the pattern, or the driver check reported it unregistered.
GuardFailed(s) ==
    \/ s.op = "sendOTP" /\ (s.phone = <<>> \/ ~isValidPhoneNumber(s.phone))
    \/ s.op \in {"driverCheck", "sendDone"} /\ "check" \in DOMAIN s
          /\ s.check \in {"notFound", "404"}

\* The stored OTP session.
StoredSession(store) == <<getItem(store, "verificationId"), "phoneNumber" \in DOMAIN store,
                          IF "phoneNumber" \in DOMAIN store THEN store["phoneNumber"] ELSE <<>>>>

\* C34: sendOTP asks Firebase for an OTP only for a non-empty number that
\* matches the pattern and that the driver check did not report unregistered;
\* when a guard fails sendOTP ends there with no Firebase request, and otpSent,
\* verificationId, the stored session and the resend countdown stay as they were.
C34_OtpDispatchGuard ==
    [][/\ (step'.op \in SendOps /\ step'.requested # <<>>) =>
             /\ step'.phone # <<>>
             /\ isValidPhoneNumber(step'.phone)
             /\ step'.check \notin {"notFound", "404"}
             /\ step'.requested = formattedPhone(step'.phone)
       /\ firebase' # firebase =>
             \E i \in 1..Len(tasks) : /\ At(i, "send", "firebase")
                                       /\ isValidPhoneNumber(tasks[i].phone)
       /\ GuardFailed(step') =>
             /\ step'.requested = <<>>
             /\ \A i \in 1..Len(tasks') : tasks'[i].kind # "send"
             /\ firebase' = firebase
             /\ screen'.otpSent = screen.otpSent
             /\ screen'.verificationId = screen.verificationId
             /\ screen'.resendCountdown = screen.resendCountdown
             /\ StoredSession(storage') = StoredSession(storage)]_vars

\* A resend for a number the driver check reports unregistered has ended,
\* with an OTP session in place that it left alone.
C34_Witness ==
    /\ step.op = "sendDone"
    /\ step.result = "notRegistered"
    /\ screen.otpSent
    /\ screen.verificationId # NoVerification
    /\ "verificationId" \in DOMAIN storage

\* verifyOTP has been refused in the step described by s: called with no code
\* or no verificationId, or Firebase rejected the credential.
VerifyRefused(s) ==
    \/ s.op = "verifyOTP" /\ (s.code = <<>> \/ s.verificationId = NoVerification)
    \/ s.op = "verifyDone" /\ s.result \in CredentialOutcomes \ {"accepted"}

\* C35: when verifyOTP is called with an empty code or without a
\* verificationId, or Firebase rejects the credential, verifyOTP ends there:
\* local storage is as it was (no authToken or driver data written, the stored
\* verificationId not removed), the screen has not navigated and shows no
\* 'Logged In' alert, and after a rejection the OTP input is empty.
C35_RefusedVerifyHasNoEffect ==
    [][VerifyRefused(step') =>
          /\ storage' = storage
          /\ screen'.route = screen.route
          /\ screen'.alert = screen.alert
          /\ \A i \in 1..Len(tasks') : tasks'[i].kind # "verify"
          /\ step'.op = "verifyDone" => screen'.code = <<>> /\ step'.code # <<>>]_vars

\* Firebase has rejected a code: the OTP input is cleared and the session is
\* still stored.
C35_Witness ==
    /\ step.op = "verifyDone"
    /\ step.result = "auth/invalid-verification-code"
    /\ screen.code = <<>>
    /\ screen.route = "Login"
    /\ "verificationId" \in DOMAIN storage
    /\ "authToken" \notin DOMAIN storage

\* A sendOTP or verifyOTP call is suspended at an await.
Loading == {i \in 1..Len(tasks) : tasks[i].kind \in {"send", "verify"}}

\* C36: loading is true exactly while one sendOTP or verifyOTP call is in
\* flight, so it is false again once the call has ended, whatever its outcome;
\* and no sendOTP or verifyOTP runs from the screen while loading is true.
C36_LoadingNeverStuck ==
    /\ [](/\ screen.loading <=> Loading # {}
          /\ Cardinality(Loading) <= 1
          /\ step.op \in {"sendDone", "verifyDone"} => ~screen.loading)
    /\ [][step'.op \in {"sendOTP", "verifyOTP"} => ~screen.loading]_vars

\* verifyOTP has ended in its outer catch after a storage failure, and loading
\* is false again.
C36_Witness ==
    /\ step.op = "verifyDone"
    /\ step.result = "storageError"
    /\ ~screen.loading
    /\ Loading = {}

\* C37: a successful sendOTP sets the resend countdown to 30; every tick takes
\* exactly one off it; it is never below 0; the resend is available exactly
\* when the countdown is 0, and no resend starts while it is above 0; and a
\* running countdown leads to the resend being available again.
C37_ResendThrottling ==
    /\ [](/\ screen.resendCountdown \in 0..ResendSeconds
          /\ screen.resendAvailable <=> screen.resendCountdown = 0)
    /\ [][/\ (step'.op = "sendDone" /\ step'.result = "sent") =>
                 screen'.resendCountdown = 30 /\ ~screen'.resendAvailable
          /\ step'.op = "tick" =>
                 /\ screen.resendCountdown > 0
                 /\ screen'.resendCountdown = screen.resendCountdown - 1
          /\ (step'.op = "sendOTP" /\ screen.otpSent) => screen.resendCountdown = 0]_vars
    /\ (screen.resendCountdown > 0) ~> (screen.resendCountdown = 0 /\ screen.resendAvailable)

\* The last tick of a countdown: the resend is available again.
C37_Witness ==
    /\ step.op = "tick"
    /\ step.from = 1
    /\ screen.otpSent
    /\ screen.resendCountdown = 0
    /\ screen.resendAvailable

\* C38: a successful sendOTP leaves its verificationId and phone number in
\* local storage; a fresh mount starts from otpSent = false with no
\* verificationId, reads the stored pair and, when both are there (and not
\* empty), shows the OTP input with exactly that verificationId and phone
\* number, and otherwise
\* changes nothing; and once verifyOTP has completed a login (backend success
\* or fallback) no verificationId is stored.
C38_SessionRoundTrip ==
    /\ []((step.op = "sendDone" /\ step.result = "sent") =>
             /\ getItem(storage, "verificationId")
                   = [found |-> TRUE, value |-> step.verificationId]
             /\ "phoneNumber" \in DOMAIN storage
             /\ storage["phoneNumber"] = step.phone)
    /\ []((step.op = "verifyDone" /\ step.result \in {"backend", "fallback"}) =>
             "verificationId" \notin DOMAIN storage)
    /\ [][/\ step'.op = "mount" =>
                 ~screen'.otpSent /\ screen'.verificationId = NoVerification
          /\ (step'.op = "restoreRead" /\ step'.outcome = "read") =>
                 \E i \in 1..Len(tasks') :
                     /\ tasks'[i].kind = "restore"
                     /\ tasks'[i].storedVerificationId = getItem(storage, "verificationId")
          /\ (step'.op = "restored" /\ step'.outcome = "read") =>
                 IF /\ step'.storedVerificationId.found
                    /\ "phoneNumber" \in DOMAIN storage
                    /\ storage["phoneNumber"] # <<>>
                 THEN /\ screen'.otpSent
                      /\ screen'.verificationId = step'.storedVerificationId.value
                      /\ screen'.mobileNumber = storage["phoneNumber"]
                 ELSE screen' = screen]_vars

\* A fresh mount has restored the session a successful sendOTP stored.
C38_Witness ==
    /\ step.op = "restored"
    /\ screen.otpSent
    /\ screen.code = <<>>
    /\ getItem(storage, "verificationId") = [found |-> TRUE, value |-> screen.verificationId]
    /\ storage["phoneNumber"] = screen.mobileNumber
    /\ firebase[screen.verificationId] = screen.mobileNumber

====
